---- MODULE Spec2Model ----
(***************************************************************************)
(* The job execution engine of app.py: the job registry (JOBS, META_DIRTY), *)
(* the job queue, the worker loop and process_job under the file lease,    *)
(* the API handlers that write to a record (start, cancel, download), the  *)
(* janitor (heartbeat watchdog and retention reaper), the meta flusher,    *)
(* and process death followed by bootstrap().                              *)
(*                                                                         *)
(* Every thread is a process with a position (its pc).  One step of a      *)
(* thread is one call that takes JOBS_LOCK (update_job, append_log,        *)
(* touch_heartbeat, get_job), one file-system call, or one read of a       *)
(* record; steps of different threads interleave freely.                   *)
(*                                                                         *)
(* Not modelled: the record fields no code path reads back and that are    *)
(* written together with a modelled one (id, created_at, payload,          *)
(* download_name, the text of the log lines).                              *)
(***************************************************************************)
EXTENDS Integers, Sequences, FiniteSets, TLC

(***************************************************************************)
(* Bounds of the model.                                                    *)
(***************************************************************************)
NumIds == 3          \* job ids that can exist on disk
MaxJobs == 1         \* uploads accepted by api_start
MaxTicks == 2        \* how often the wall clock advances
TickSeconds == 61    \* seconds of one advance of the wall clock
MaxCancels == 1      \* POST /api/cancel requests
MaxDownloads == 1    \* GET /api/download requests
MaxCrashes == 1      \* process deaths
MaxEnqueues == 1     \* extra JOB_QUEUE.put of an id (spec 8, scenario 5)
TotalSegments == 2   \* segments the segmentation yields for a job
MaxTexts == 4        \* calls of atomic_write_text on the path
TextChunks == 3      \* pieces in which a text reaches the file
LOG_MAX_LINES == 3   \* Config.LOG_MAX_LINES, scaled down so that logs are cut
META_LOG_MAX_LINES == 2  \* Config.META_LOG_MAX_LINES, below LOG_MAX_LINES

(***************************************************************************)
(* Program constants (class Config).  The retention periods are the        *)
(* smallest values their _env_int(..., minimum=60) allows.                 *)
(***************************************************************************)
JOB_WORKERS == 2
CONCURRENCY == 2
REQUEST_RETRY_TIMES == 2
ORPHAN_RETENTION_SECONDS == 60
ERROR_RETENTION_SECONDS == 60
DONE_RETENTION_SECONDS == 60
DOWNLOAD_GRACE_SECONDS == 0
AUTO_CLEANUP_ENABLED == TRUE
AUTO_CLEANUP_AFTER_DOWNLOAD == FALSE

JobIds == 1..NumIds
Workers == 1..JOB_WORKERS
Segments == 1..TotalSegments
None == -1           \* Python's None in a timestamp field

Terminal == {"done", "error", "cancelled"}
Active == {"queued", "running"}
Statuses == Active \cup Terminal

VARIABLES
  now,          \* ts(): the wall clock, in seconds
  up,           \* the process is alive (bootstrap() has run)
  JOBS,         \* the registry: job id -> record
  META_DIRTY,   \* ids whose record is to be flushed
  JOB_QUEUE,    \* FIFO of job ids
  META,         \* meta/<id>.json: job id -> persisted record
  LOCKS,        \* ids with a locks/<id>.lock file
  UPLOADS,      \* ids with their upload in uploads/<id>/
  TMPDIRS,      \* ids with a tmp/<id>/ directory
  OUTPUTS,      \* ids with an outputs/<id>.srt file
  wpc, wjob,    \* worker: position, job id popped
  wseg,         \* worker: len(segments)
  wdone,        \* worker: futures completed so far
  wres,         \* worker: len(results), the ok results kept
  wempty, wfail,\* worker: empty_count > 0, fail_count > 0
  spc, sjob,    \* api_start handler
  cpc, cjob,    \* api_cancel handler
  dpc, djob,    \* api_download handler
  jpc, jids, jcur, jnow,  \* cleanup_loop: position, ids left, id, now
  fpc, fids,    \* meta flusher: position, ids left to write
  runs,         \* history: pipeline starts per job since bootstrap
  recovered,    \* history: ids re-enqueued as running, their lock on disk
  handled,      \* history: ids a worker has popped and finished with
  qcancel,      \* history: ids api_cancel found queued and set cancelled
  observed,     \* history: workers that saw cancel_requested in their pipeline
  nstart, ncancel, ndownload, ncrash, nenq,  \* requests made so far
  tmodel,       \* transcribe_task: the provider the model name selects
  tpc,          \* transcribe_task: position of the task of each segment
  tsent,        \* transcribe_task: sends of the current SESSION.post
  tposts,       \* history: POSTs sent to the provider, per segment
  tcut,         \* history: segment files cut, per segment
  tres,         \* transcribe_task: SegmentResult.error of each segment
  tlate,        \* history: tasks started when cancel_requested was true
  SHUTDOWN,     \* the threading.Event the loops watch
  afs,          \* atomic_write_text: the files, name -> content or <<>>
  apc,          \* atomic_write_text: position of the call
  atext,        \* atomic_write_text: the text of the call
  purged,       \* history: ids _delete_job_artifacts has finished with
  Config,       \* the settings of the reaper read from the environment
  jticked,      \* history: cleanup_loop has completed a tick
  call,         \* the function under evaluation, or its position
  args,         \* its arguments
  ret,          \* its return value
  ppc, pjob,    \* api_status handler: position, job id of the client
  plogs,        \* api_status: the list `logs` (seq of its first entry, 0: [])
  new_logs,     \* api_status: the entries picked for the response
  since,        \* the client: next_since of the last response
  received,     \* history: the log lines the client was sent, in order
  seen,         \* history: log_seq at the client's previous request
  overrun       \* history: LOG_MAX_LINES or more lines came between two polls

wvars == <<wpc, wjob, wseg, wdone, wres, wempty, wfail>>
svars == <<spc, sjob>>
cvars == <<cpc, cjob>>
dvars == <<dpc, djob>>
jvars == <<jpc, jids, jcur, jnow>>
fvars == <<fpc, fids>>
disk == <<META, LOCKS, UPLOADS, TMPDIRS, OUTPUTS>>
hist == <<runs, recovered, handled, qcancel, observed>>
counts == <<nstart, ncancel, ndownload, ncrash, nenq>>
tvars == <<tmodel, tpc, tsent, tposts, tcut, tres, tlate>>
avars == <<afs, apc, atext>>
pvars == <<ppc, pjob, plogs, new_logs, since, received, seen, overrun>>
evars == <<call, args, ret, pvars>>
xvars == <<tvars, SHUTDOWN, avars, purged, Config, jticked, evars>>
vars == <<now, up, JOBS, META_DIRTY, JOB_QUEUE, disk, wvars, svars, cvars,
          dvars, jvars, fvars, hist, counts, xvars>>

(***************************************************************************)
(* Job records and the registry operations.  Each operator takes the       *)
(* registry J and yields the registry after the call.                      *)
(***************************************************************************)
\* logs[-n:], the last n entries of a list.
LastLines(logs, n) ==
  IF Len(logs) > n THEN SubSeq(logs, Len(logs) - n + 1, Len(logs)) ELSE logs

\* The log list of a record that has had k calls of append_log; an entry is
\* modelled by its seq.
LogsUpTo(k) == LastLines([i \in 1..k |-> i], LOG_MAX_LINES)

NewRec(t) ==
  [status |-> "queued", progress |-> 0, updated_at |-> t, started_at |-> None,
   finished_at |-> None, last_heartbeat |-> t, log_seq |-> 0, logs |-> <<>>,
   error |-> "null",
   result_path |-> "null", downloaded_at |-> None, cancel_requested |-> FALSE]

init_job(J, id) == (id :> NewRec(now)) @@ J

\* get_job: memory first; on a miss the record is read from meta/<id>.json
\* and put into JOBS.
get_job(J, id) ==
  IF id \in DOMAIN J THEN J
  ELSE IF id \in DOMAIN META THEN (id :> META[id]) @@ J
  ELSE J

\* update_job(job_id, **patch): nothing when the id is not in JOBS.
update_job(J, id, patch) ==
  IF id \notin DOMAIN J THEN J
  ELSE [J EXCEPT ![id] = [(patch @@ @) EXCEPT !.updated_at = now]]

touch_heartbeat(J, id) ==
  IF id \notin DOMAIN J THEN J
  ELSE [J EXCEPT ![id] = [@ EXCEPT !.last_heartbeat = now, !.updated_at = now]]

\* append_log whose entry takes the seq read before the increment.
append_log_stale_seq(J, id) ==
  IF id \notin DOMAIN J THEN J
  ELSE [J EXCEPT ![id] = [@ EXCEPT !.log_seq = @ + 1,
                                   !.logs = LastLines(Append(@, J[id].log_seq),
                                                      LOG_MAX_LINES)]]

append_log(J, id) ==
  IF id \notin DOMAIN J THEN J
  ELSE [J EXCEPT ![id] = [@ EXCEPT !.log_seq = @ + 1,
                                   !.logs = LastLines(Append(@, J[id].log_seq + 1),
                                                      LOG_MAX_LINES),
                                   !.updated_at = now,
                                   !.last_heartbeat = now]]

StatusPatch(status) ==
  [status |-> status, updated_at |-> now, last_heartbeat |-> now]
    @@ (IF status = "running" THEN [started_at |-> now] ELSE <<>>)
    @@ (IF status \in Terminal THEN [finished_at |-> now] ELSE <<>>)

set_status(J, id, status) == update_job(J, id, StatusPatch(status))

clamp(v, lo, hi) == IF v < lo THEN lo ELSE IF v > hi THEN hi ELSE v

set_progress(J, id, p) == update_job(J, id, [progress |-> clamp(p, 0, 100)])

set_error(J, id, msg) ==
  update_job(J, id, [status |-> "error", error |-> msg, finished_at |-> now,
                     last_heartbeat |-> now])

set_result(J, id) ==
  update_job(J, id, [result_path |-> "srt", status |-> "done", progress |-> 100,
                     finished_at |-> now, last_heartbeat |-> now,
                     error |-> "null"])

mark_downloaded(J, id) == update_job(J, id, [downloaded_at |-> now])

\* A cancel check that never sees the request.
is_cancel_requested_never(J, id) == FALSE

\* is_cancel_requested, evaluated on the registry get_job leaves behind.
is_cancel_requested(J, id) == id \in DOMAIN J /\ J[id].cancel_requested

\* update_job, touch_heartbeat and append_log mark the id dirty only when the
\* record was in JOBS.
\* A mutation that returns without adding the id to the dirty set.
mark_meta_dirty_dropped(D, id) == D

mark_meta_dirty(D, id) == D \cup {id}
DirtyAfterWrite(J, id) ==
  IF id \in DOMAIN J THEN mark_meta_dirty(META_DIRTY, id) ELSE META_DIRTY

\* A snapshot stamped with the time of the save.
SnapshotStamped(rec) == [rec EXCEPT !.updated_at = now]

\* _snapshot_for_meta: a deep copy whose logs are cut to the last
\* META_LOG_MAX_LINES entries.
SnapshotForMeta(rec) == [rec EXCEPT !.logs = LastLines(@, META_LOG_MAX_LINES)]

\* The open of acquire_job_lease without O_EXCL, which never fails.
LeaseFreeNoExcl(id) == TRUE

\* acquire_job_lease: O_CREAT | O_EXCL fails when the lock file exists.
LeaseFree(id) == id \notin LOCKS
release_job_lease(L, id) == L \ {id}

EmptyMap == [k \in {} |-> 0]
NoJob == 0

Remove(f, id) == [k \in DOMAIN f \ {id} |-> f[k]]

(***************************************************************************)
(* The initial state: the process has not run bootstrap() yet, on an empty *)
(* jobs/ directory.                                                        *)
(***************************************************************************)
MemoryInit ==
  /\ up = FALSE
  /\ JOBS = EmptyMap
  /\ META_DIRTY = {}
  /\ JOB_QUEUE = <<>>
  /\ wpc = [w \in Workers |-> "idle"]
  /\ wjob = [w \in Workers |-> NoJob]
  /\ wseg = [w \in Workers |-> 0]
  /\ wdone = [w \in Workers |-> 0]
  /\ wres = [w \in Workers |-> 0]
  /\ wempty = [w \in Workers |-> FALSE]
  /\ wfail = [w \in Workers |-> FALSE]
  /\ spc = "idle" /\ sjob = NoJob
  /\ cpc = "idle" /\ cjob = NoJob
  /\ dpc = "idle" /\ djob = NoJob
  /\ jpc = "idle" /\ jids = {} /\ jcur = NoJob /\ jnow = 0
  /\ fpc = "idle" /\ fids = {}
  /\ runs = [id \in JobIds |-> 0]
  /\ recovered = {}
  /\ handled = {}
  /\ qcancel = {}
  /\ observed = {}

\* No executor of transcribe_task exists outside the fan-out of process_job.
TaskInit ==
  /\ tmodel = "general"
  /\ tpc = [s \in Segments |-> "none"]
  /\ tsent = [s \in Segments |-> 0]
  /\ tposts = [s \in Segments |-> 0]
  /\ tcut = [s \in Segments |-> 0]
  /\ tres = [s \in Segments |-> "null"]
  /\ tlate = {}

\* 209: SHUTDOWN = threading.Event(), not set.
EventInit == SHUTDOWN = FALSE

\* The file of one path before any atomic_write_text: absent, no call running.
WriteInit ==
  /\ afs = [f \in {"path", "path.tmp"} |-> <<>>]
  /\ apc = "idle"
  /\ atext = 0

\* 125-126: the defaults of the download clean-up.
ConfigInit ==
  Config = [AUTO_CLEANUP_ENABLED |-> AUTO_CLEANUP_ENABLED,
            AUTO_CLEANUP_AFTER_DOWNLOAD |-> AUTO_CLEANUP_AFTER_DOWNLOAD,
            DOWNLOAD_GRACE_SECONDS |-> DOWNLOAD_GRACE_SECONDS]

\* The histories of the janitor.
JanitorInit == purged = {} /\ jticked = FALSE

\* No client has polled the status endpoint.
NoPoll ==
  /\ ppc = "idle" /\ pjob = NoJob
  /\ plogs = 0 /\ new_logs = <<>>
  /\ since = 0 /\ received = <<>>
  /\ seen = 0 /\ overrun = FALSE

\* No function is under evaluation.
NoCall == call = "none" /\ args = <<>> /\ ret = <<>>

XInit == TaskInit /\ EventInit /\ WriteInit /\ JanitorInit /\ ConfigInit /\ NoCall /\ NoPoll

EOther == <<now, up, JOBS, META_DIRTY, JOB_QUEUE, disk, wvars, svars, cvars, dvars,
            jvars, fvars, hist, counts, tvars, SHUTDOWN, avars, purged, Config,
            jticked, pvars>>

\* The service at rest, around the evaluation of a function.
AtRest ==
  /\ now = 0
  /\ MemoryInit
  /\ TaskInit /\ EventInit /\ WriteInit /\ JanitorInit /\ ConfigInit /\ NoPoll
  /\ META = EmptyMap
  /\ LOCKS = {} /\ UPLOADS = {} /\ TMPDIRS = {} /\ OUTPUTS = {}
  /\ nstart = 0 /\ ncancel = 0 /\ ndownload = 0 /\ ncrash = 0 /\ nenq = 0

Init ==
  /\ now = 0
  /\ MemoryInit
  /\ XInit
  /\ META = EmptyMap
  /\ LOCKS = {} /\ UPLOADS = {} /\ TMPDIRS = {} /\ OUTPUTS = {}
  /\ nstart = 0 /\ ncancel = 0 /\ ndownload = 0 /\ ncrash = 0 /\ nenq = 0

(***************************************************************************)
(* The wall clock.  A step of a thread takes no time; the clock advances   *)
(* by TickSeconds only while every thread waits: a worker in               *)
(* JOB_QUEUE.get, in the transcoder (timeout 900 s), in the segmentation   *)
(* (prober timeout 30 s) or on the next future (request timeout 120 s), a  *)
(* handler between two requests, the janitor and the flusher asleep in     *)
(* SHUTDOWN.wait.  It also advances while the process is down.             *)
(***************************************************************************)
WaitingPcs == {"idle", "p_normalize", "p_vad", "f_hb"}

AllWaiting ==
  /\ \A w \in Workers : wpc[w] \in WaitingPcs
  /\ spc = "idle" /\ cpc = "idle" /\ dpc = "idle"
  /\ jpc = "idle" /\ fpc = "idle"

Tick ==
  /\ now < MaxTicks * TickSeconds
  /\ ~up \/ AllWaiting
  /\ now' = now + TickSeconds
  /\ UNCHANGED <<up, JOBS, META_DIRTY, JOB_QUEUE, disk, wvars, svars, cvars,
                 dvars, jvars, fvars, hist, counts, xvars>>

(***************************************************************************)
(* worker_loop and process_job.                                            *)
(***************************************************************************)
WOther == <<now, up, xvars, svars, cvars, dvars, jvars, fvars, counts>>

\* The worker finishes with its id (JOB_QUEUE.task_done) and polls again.
WBack(w) ==
  /\ wpc' = [wpc EXCEPT ![w] = "idle"]
  /\ wjob' = [wjob EXCEPT ![w] = NoJob]
  /\ wseg' = [wseg EXCEPT ![w] = 0]
  /\ wdone' = [wdone EXCEPT ![w] = 0]
  /\ wres' = [wres EXCEPT ![w] = 0]
  /\ wempty' = [wempty EXCEPT ![w] = FALSE]
  /\ wfail' = [wfail EXCEPT ![w] = FALSE]
  /\ handled' = handled \cup {wjob[w]}
  /\ observed' = observed \ {w}
  /\ UNCHANGED <<runs, recovered, qcancel>>

WGoto(w, to) ==
  /\ wpc' = [wpc EXCEPT ![w] = to]
  /\ UNCHANGED <<wjob, wseg, wdone, wres, wempty, wfail, hist>>

\* One call of update_job, append_log or touch_heartbeat by worker w.
WWrite(w, from, J2, to) ==
  /\ up /\ wpc[w] = from
  /\ JOBS' = J2
  /\ META_DIRTY' = DirtyAfterWrite(JOBS, wjob[w])
  /\ IF to = "idle" THEN WBack(w) ELSE WGoto(w, to)
  /\ UNCHANGED <<JOB_QUEUE, disk, WOther>>

\* One is_cancel_requested(job_id) by worker w; inside the pipeline (1386,
\* 1430) a true answer is recorded in observed.
WCancelCheck(w, from, yes, no) ==
  /\ up /\ wpc[w] = from
  /\ JOBS' = get_job(JOBS, wjob[w])
  /\ wpc' = [wpc EXCEPT ![w] =
               IF is_cancel_requested(JOBS', wjob[w]) THEN yes ELSE no]
  /\ observed' = IF is_cancel_requested(JOBS', wjob[w]) /\ from # "p_cancel0"
                   THEN observed \cup {w} ELSE observed
  /\ UNCHANGED <<wjob, wseg, wdone, wres, wempty, wfail, runs, recovered,
                 handled, qcancel, META_DIRTY, JOB_QUEUE, disk, WOther>>

\* 1473: job_id = JOB_QUEUE.get(timeout=1.0).  The workers run the same
\* code, so of the idle ones the first takes the id.
WPop(w) ==
  /\ up /\ ~SHUTDOWN /\ wpc[w] = "idle" /\ JOB_QUEUE # <<>>
  /\ \A v \in Workers : v < w => wpc[v] # "idle"
  /\ wjob' = [wjob EXCEPT ![w] = Head(JOB_QUEUE)]
  /\ JOB_QUEUE' = Tail(JOB_QUEUE)
  /\ wpc' = [wpc EXCEPT ![w] = "w_check"]
  /\ UNCHANGED <<JOBS, META_DIRTY, disk, wseg, wdone, wres, wempty, wfail,
                 hist, WOther>>

\* 1478-1487: the checks of worker_loop before process_job.
WCheck(w) ==
  /\ up /\ wpc[w] = "w_check"
  /\ JOBS' = get_job(JOBS, wjob[w])
  /\ IF wjob[w] \notin DOMAIN JOBS' THEN WBack(w)
     ELSE IF JOBS'[wjob[w]].status \notin Active THEN WBack(w)
     ELSE IF JOBS'[wjob[w]].cancel_requested THEN WGoto(w, "w_qc_set")
     ELSE WGoto(w, "p_lease")
  /\ UNCHANGED <<META_DIRTY, JOB_QUEUE, disk, WOther>>

\* 1484, 1485
WQueueCancelSet(w) ==
  WWrite(w, "w_qc_set", set_status(JOBS, wjob[w], "cancelled"), "w_qc_log")
WQueueCancelLog(w) ==
  WWrite(w, "w_qc_log", append_log(JOBS, wjob[w]), "idle")

\* 1313-1319: get_job, then acquire_job_lease.
PLease(w) ==
  /\ up /\ wpc[w] = "p_lease"
  /\ JOBS' = get_job(JOBS, wjob[w])
  /\ IF wjob[w] \notin DOMAIN JOBS'
       THEN WBack(w) /\ UNCHANGED LOCKS
     ELSE IF LeaseFree(wjob[w])
       THEN WGoto(w, "p_file") /\ LOCKS' = LOCKS \cup {wjob[w]}
     ELSE WGoto(w, "p_skip_log") /\ UNCHANGED LOCKS
  /\ UNCHANGED <<META_DIRTY, JOB_QUEUE, META, UPLOADS, TMPDIRS, OUTPUTS, WOther>>

\* 1318
PSkipLog(w) == WWrite(w, "p_skip_log", append_log(JOBS, wjob[w]), "idle")

\* 1327: file_path.exists()
PFile(w) ==
  /\ up /\ wpc[w] = "p_file"
  /\ WGoto(w, IF wjob[w] \in UPLOADS THEN "p_cancel0" ELSE "p_miss_err")
  /\ UNCHANGED <<JOBS, META_DIRTY, JOB_QUEUE, disk, WOther>>

\* 1328-1330: the return of the missing-upload branch.
PMissErr(w) ==
  WWrite(w, "p_miss_err", set_error(JOBS, wjob[w], "UPLOAD_MISSING"), "p_miss_log")
PMissLog(w) == WWrite(w, "p_miss_log", append_log(JOBS, wjob[w]), "idle")

\* 1332-1335: the return of the cancelled-before-start branch.
PCancel0(w) == WCancelCheck(w, "p_cancel0", "p_c0_set", "p_running")
PCancel0Set(w) ==
  WWrite(w, "p_c0_set", set_status(JOBS, wjob[w], "cancelled"), "p_c0_log")
PCancel0Log(w) == WWrite(w, "p_c0_log", append_log(JOBS, wjob[w]), "idle")

\* 1338: set_status(job_id, "running"), the start of the pipeline.
PRunning(w) ==
  /\ up /\ wpc[w] = "p_running"
  /\ JOBS' = set_status(JOBS, wjob[w], "running")
  /\ META_DIRTY' = DirtyAfterWrite(JOBS, wjob[w])
  /\ wpc' = [wpc EXCEPT ![w] = "p_prog1"]
  /\ runs' = [runs EXCEPT ![wjob[w]] = @ + 1]
  /\ UNCHANGED <<wjob, wseg, wdone, wres, wempty, wfail, recovered, handled,
                 qcancel, observed, JOB_QUEUE, disk, WOther>>

\* 1339, 1340
PProg1(w) == WWrite(w, "p_prog1", set_progress(JOBS, wjob[w], 1), "p_log_start")
PLogStart(w) == WWrite(w, "p_log_start", append_log(JOBS, wjob[w]), "p_normalize")

\* 1343: normalize_to_wav creates tmp/<id>/ and runs the transcoder, which
\* succeeds or raises.
PNormalize(w) ==
  /\ up /\ wpc[w] = "p_normalize"
  /\ TMPDIRS' = TMPDIRS \cup {wjob[w]}
  /\ \E ok \in BOOLEAN : WGoto(w, IF ok THEN "p_hb_norm" ELSE "x_err")
  /\ UNCHANGED <<JOBS, META_DIRTY, JOB_QUEUE, META, LOCKS, UPLOADS, OUTPUTS,
                 WOther>>

\* 1344-1346
PHbNorm(w) == WWrite(w, "p_hb_norm", touch_heartbeat(JOBS, wjob[w]), "p_prog8")
PProg8(w) == WWrite(w, "p_prog8", set_progress(JOBS, wjob[w], 8), "p_log_norm")
PLogNorm(w) == WWrite(w, "p_log_norm", append_log(JOBS, wjob[w]), "p_vad")

\* 1354: detect_speech_segments raises, or yields no segment or some.
PVad(w) ==
  /\ up /\ wpc[w] = "p_vad"
  /\ \E out \in {"raise", "none", "some"} :
       /\ wpc' = [wpc EXCEPT ![w] = IF out = "raise" THEN "x_err" ELSE "p_hb_vad"]
       /\ wseg' = [wseg EXCEPT ![w] = IF out = "some" THEN TotalSegments ELSE 0]
  /\ UNCHANGED <<wjob, wdone, wres, wempty, wfail, hist, JOBS, META_DIRTY,
                 JOB_QUEUE, disk, WOther>>

\* 1355-1357
PHbVad(w) ==
  WWrite(w, "p_hb_vad", touch_heartbeat(JOBS, wjob[w]),
         IF wseg[w] = 0 THEN "x_err" ELSE "p_log_vad")

\* 1380, 1384
PLogVad(w) == WWrite(w, "p_log_vad", append_log(JOBS, wjob[w]), "p_prog14")
PProg14(w) == WWrite(w, "p_prog14", set_progress(JOBS, wjob[w], 14), "p_cancel1")

\* 1386-1389
PCancel1(w) == WCancelCheck(w, "p_cancel1", "p_c1_set", "f_hb")
PCancel1Set(w) ==
  WWrite(w, "p_c1_set", set_status(JOBS, wjob[w], "cancelled"), "p_c1_log")
PCancel1Log(w) == WWrite(w, "p_c1_log", append_log(JOBS, wjob[w]), "fin_rm")

\* 1402-1404: a future completes (its task made tmp/<id>/segments/).
FHeartbeat(w) ==
  /\ up /\ wpc[w] = "f_hb"
  /\ JOBS' = touch_heartbeat(JOBS, wjob[w])
  /\ META_DIRTY' = DirtyAfterWrite(JOBS, wjob[w])
  /\ TMPDIRS' = TMPDIRS \cup {wjob[w]}
  /\ wdone' = [wdone EXCEPT ![w] = @ + 1]
  /\ wpc' = [wpc EXCEPT ![w] = "f_cancel"]
  /\ UNCHANGED <<wjob, wseg, wres, wempty, wfail, hist, JOB_QUEUE, META, LOCKS,
                 UPLOADS, OUTPUTS, WOther>>

\* 1406-1423: the cancel check on a completion, then the future's result.
FResult(w) ==
  /\ up /\ wpc[w] = "f_cancel"
  /\ JOBS' = get_job(JOBS, wjob[w])
  /\ IF is_cancel_requested(JOBS', wjob[w])
       THEN /\ wpc' = [wpc EXCEPT ![w] = "f_cancel_log"]
            /\ observed' = observed \cup {w}
            /\ UNCHANGED <<wres, wempty, wfail>>
       ELSE \E r \in {"ok", "empty", "hard"} :
            /\ observed' = observed
            /\ wpc' = [wpc EXCEPT ![w] = IF r = "hard" THEN "f_warn" ELSE "f_prog"]
            /\ wres' = [wres EXCEPT ![w] = IF r = "ok" THEN @ + 1 ELSE @]
            /\ wempty' = [wempty EXCEPT ![w] = @ \/ r = "empty"]
            /\ wfail' = [wfail EXCEPT ![w] = @ \/ r = "hard"]
  /\ UNCHANGED <<wjob, wseg, wdone, runs, recovered, handled, qcancel,
                 META_DIRTY, JOB_QUEUE, disk, WOther>>

\* 1407-1409: the break of the completion loop.
FCancelLog(w) == WWrite(w, "f_cancel_log", append_log(JOBS, wjob[w]), "p_cancel2")

\* 1425
FWarn(w) == WWrite(w, "f_warn", append_log(JOBS, wjob[w]), "f_prog")

\* 1427, 1428
\* A progress that counts the futures still to complete.
ProgressRemaining(done, total) ==
  14 + ((80 * (total - done)) \div (IF total > 1 THEN total ELSE 1))

Progress(done, total) == 14 + ((80 * done) \div (IF total > 1 THEN total ELSE 1))
FProgress(w) ==
  WWrite(w, "f_prog", set_progress(JOBS, wjob[w], Progress(wdone[w], wseg[w])),
         IF wdone[w] < wseg[w] THEN "f_hb" ELSE "p_cancel2")

\* The policy under which one hard failure of a segment fails the job.
AfterFanoutStrict(w) ==
  IF wres[w] = 0 \/ wfail[w] THEN "x_err"
  ELSE IF wempty[w] THEN "p_log_empty"
  ELSE "p_write"

\* 1430-1442
AfterFanout(w) ==
  IF wres[w] = 0 THEN "x_err"
  ELSE IF wempty[w] THEN "p_log_empty"
  ELSE IF wfail[w] THEN "p_log_fail"
  ELSE "p_write"
PCancel2(w) == WCancelCheck(w, "p_cancel2", "p_c2_set", AfterFanout(w))
PCancel2Set(w) ==
  WWrite(w, "p_c2_set", set_status(JOBS, wjob[w], "cancelled"), "p_c2_log")
PCancel2Log(w) == WWrite(w, "p_c2_log", append_log(JOBS, wjob[w]), "fin_rm")
PLogEmpty(w) ==
  WWrite(w, "p_log_empty", append_log(JOBS, wjob[w]),
         IF wfail[w] THEN "p_log_fail" ELSE "p_write")
PLogFail(w) == WWrite(w, "p_log_fail", append_log(JOBS, wjob[w]), "p_write")

\* 1444-1446: atomic_write_text(out_path, srt)
PWrite(w) ==
  /\ up /\ wpc[w] = "p_write"
  /\ OUTPUTS' = OUTPUTS \cup {wjob[w]}
  /\ WGoto(w, "p_result")
  /\ UNCHANGED <<JOBS, META_DIRTY, JOB_QUEUE, META, LOCKS, UPLOADS, TMPDIRS,
                 WOther>>

\* 1450, 1451
PResult(w) == WWrite(w, "p_result", set_result(JOBS, wjob[w]), "p_log_done")
PLogDone(w) == WWrite(w, "p_log_done", append_log(JOBS, wjob[w]), "fin_rm")

\* 1453-1456: except Exception
XError(w) == WWrite(w, "x_err", set_error(JOBS, wjob[w], "PIPELINE"), "x_log")
XLog(w) == WWrite(w, "x_log", append_log(JOBS, wjob[w]), "fin_rm")

\* A finally block that leaves tmp/<id>/ in place.
FinRmtreeSkipped(w) ==
  /\ up /\ wpc[w] = "fin_rm"
  /\ WGoto(w, "fin_release")
  /\ UNCHANGED <<JOBS, META_DIRTY, JOB_QUEUE, disk, WOther>>

\* 1458-1462: finally
FinRmtree(w) ==
  /\ up /\ wpc[w] = "fin_rm"
  /\ TMPDIRS' = TMPDIRS \ {wjob[w]}
  /\ WGoto(w, "fin_release")
  /\ UNCHANGED <<JOBS, META_DIRTY, JOB_QUEUE, META, LOCKS, UPLOADS, OUTPUTS,
                 WOther>>
FinRelease(w) ==
  /\ up /\ wpc[w] = "fin_release"
  /\ LOCKS' = release_job_lease(LOCKS, wjob[w])
  /\ WGoto(w, "fin_dirty")
  /\ UNCHANGED <<JOBS, META_DIRTY, JOB_QUEUE, META, UPLOADS, TMPDIRS, OUTPUTS,
                 WOther>>
FinDirty(w) ==
  /\ up /\ wpc[w] = "fin_dirty"
  /\ META_DIRTY' = mark_meta_dirty(META_DIRTY, wjob[w])
  /\ WBack(w)
  /\ UNCHANGED <<JOBS, JOB_QUEUE, disk, WOther>>

\* process_job and worker_loop on the path without a cancel request.
WorkerRun(w) ==
  \/ WPop(w) \/ WCheck(w) \/ PLease(w) \/ PFile(w) \/ PCancel0(w)
  \/ PRunning(w) \/ PProg1(w) \/ PLogStart(w) \/ PNormalize(w)
  \/ PHbNorm(w) \/ PProg8(w) \/ PLogNorm(w) \/ PVad(w) \/ PHbVad(w)
  \/ PLogVad(w) \/ PProg14(w) \/ PCancel1(w)
  \/ FHeartbeat(w) \/ FResult(w) \/ FWarn(w) \/ FProgress(w) \/ PCancel2(w)
  \/ PLogEmpty(w) \/ PLogFail(w) \/ PWrite(w) \/ PResult(w) \/ PLogDone(w)
  \/ XError(w) \/ XLog(w) \/ FinRmtree(w) \/ FinRelease(w) \/ FinDirty(w)

\* The branches a worker takes on a cancel request.
WorkerCancelled(w) ==
  \/ WQueueCancelSet(w) \/ WQueueCancelLog(w)
  \/ PCancel0Set(w) \/ PCancel0Log(w)
  \/ PCancel1Set(w) \/ PCancel1Log(w)
  \/ FCancelLog(w)
  \/ PCancel2Set(w) \/ PCancel2Log(w)

\* The branch of the missing upload (1327-1330).
WorkerNoUpload(w) == PMissErr(w) \/ PMissLog(w)

\* The whole worker thread.
Worker(w) ==
  WorkerRun(w) \/ WorkerCancelled(w) \/ PSkipLog(w) \/ WorkerNoUpload(w)

(***************************************************************************)
(* api_start: the upload is saved, then init_job, append_log and           *)
(* JOB_QUEUE.put.  The id is a fresh uuid4.                                *)
(***************************************************************************)
SOther == <<now, up, xvars, wvars, cvars, dvars, jvars, fvars, hist, ncancel,
            ndownload, ncrash, nenq>>

\* 1651-1668
StartInit ==
  /\ up /\ spc = "idle" /\ nstart < MaxJobs
  /\ \E id \in JobIds :
       /\ id = nstart + 1
       /\ id \notin DOMAIN JOBS /\ id \notin DOMAIN META
       /\ UPLOADS' = UPLOADS \cup {id}
       /\ JOBS' = init_job(JOBS, id)
       /\ META_DIRTY' = mark_meta_dirty(META_DIRTY, id)
       /\ sjob' = id
  /\ spc' = "s_log"
  /\ nstart' = nstart + 1
  /\ UNCHANGED <<JOB_QUEUE, META, LOCKS, TMPDIRS, OUTPUTS, SOther>>

\* 1669
StartLog ==
  /\ up /\ spc = "s_log"
  /\ JOBS' = append_log(JOBS, sjob)
  /\ META_DIRTY' = DirtyAfterWrite(JOBS, sjob)
  /\ spc' = "s_put"
  /\ UNCHANGED <<sjob, nstart, JOB_QUEUE, disk, SOther>>

\* 1670
StartPut ==
  /\ up /\ spc = "s_put"
  /\ JOB_QUEUE' = Append(JOB_QUEUE, sjob)
  /\ spc' = "idle" /\ sjob' = NoJob
  /\ UNCHANGED <<nstart, JOBS, META_DIRTY, disk, SOther>>

\* A second JOB_QUEUE.put of an id that is in the queue (spec 8, scenario 5:
\* "two workers simultaneously pop the same id (simulated by manual
\* enqueue)").  The second entry is popped at any later time, so a put that
\* comes later adds no behaviour of the workers.
ManualEnqueue ==
  /\ up /\ nenq < MaxEnqueues
  /\ \E id \in DOMAIN JOBS :
       /\ \E i \in 1..Len(JOB_QUEUE) : JOB_QUEUE[i] = id
       /\ JOB_QUEUE' = Append(JOB_QUEUE, id)
  /\ nenq' = nenq + 1
  /\ UNCHANGED <<now, up, JOBS, META_DIRTY, disk, wvars, svars, cvars, dvars,
                 jvars, fvars, hist, nstart, ncancel, ndownload, ncrash, xvars>>

(***************************************************************************)
(* api_cancel.                                                             *)
(***************************************************************************)
COther == <<now, up, xvars, JOB_QUEUE, disk, wvars, svars, dvars, jvars, fvars, runs,
            recovered, handled, observed, nstart, ndownload, ncrash, nenq>>

\* 1715-1721.  The id is a uuid4 (1651) that the client learns from the
\* response of api_start (1672), so no request names the id of a start that
\* has not returned.
CancelBegin ==
  /\ up /\ cpc = "idle" /\ ncancel < MaxCancels
  /\ \E id \in JobIds :
       /\ id # sjob
       /\ JOBS' = get_job(JOBS, id)
       /\ id \in DOMAIN JOBS'
       /\ IF JOBS'[id].status \in Terminal
            THEN cpc' = "idle" /\ cjob' = NoJob
            ELSE cpc' = "c_update" /\ cjob' = id
  /\ ncancel' = ncancel + 1
  /\ UNCHANGED <<META_DIRTY, qcancel, COther>>

CWrite(from, J2, to) ==
  /\ up /\ cpc = from
  /\ JOBS' = J2
  /\ META_DIRTY' = DirtyAfterWrite(JOBS, cjob)
  /\ cpc' = to
  /\ cjob' = IF to = "idle" THEN NoJob ELSE cjob
  /\ qcancel' = IF from = "c_set" THEN qcancel \cup {cjob} ELSE qcancel
  /\ UNCHANGED <<ncancel, COther>>

\* 1723, 1724
CancelUpdate ==
  CWrite("c_update", update_job(JOBS, cjob, [cancel_requested |-> TRUE]), "c_log")
CancelLog == CWrite("c_log", append_log(JOBS, cjob), "c_read")

\* 1727, 1728
CancelRead ==
  /\ up /\ cpc = "c_read"
  /\ JOBS' = get_job(JOBS, cjob)
  /\ IF cjob \in DOMAIN JOBS' /\ JOBS'[cjob].status = "queued"
       THEN cpc' = "c_set" /\ cjob' = cjob
       ELSE cpc' = "idle" /\ cjob' = NoJob
  /\ UNCHANGED <<META_DIRTY, ncancel, qcancel, COther>>

\* 1729
CancelSet == CWrite("c_set", set_status(JOBS, cjob, "cancelled"), "idle")

(***************************************************************************)
(* api_download.                                                           *)
(***************************************************************************)
DOther == <<now, up, xvars, JOB_QUEUE, disk, wvars, svars, cvars, jvars, fvars, hist,
            nstart, ncancel, ncrash, nenq>>

\* 1739-1747
DownloadBegin ==
  /\ up /\ dpc = "idle" /\ ndownload < MaxDownloads
  /\ \E id \in JobIds :
       /\ id # sjob
       /\ JOBS' = get_job(JOBS, id)
       /\ id \in DOMAIN JOBS'
       /\ IF /\ JOBS'[id].status = "done"
             /\ JOBS'[id].result_path = "srt"
             /\ id \in OUTPUTS
            THEN dpc' = "d_mark" /\ djob' = id
            ELSE dpc' = "idle" /\ djob' = NoJob
  /\ ndownload' = ndownload + 1
  /\ UNCHANGED <<META_DIRTY, DOther>>

\* 1749
DownloadMark ==
  /\ up /\ dpc = "d_mark"
  /\ JOBS' = mark_downloaded(JOBS, djob)
  /\ META_DIRTY' = DirtyAfterWrite(JOBS, djob)
  /\ dpc' = "idle" /\ djob' = NoJob
  /\ UNCHANGED <<ndownload, DOther>>

(***************************************************************************)
(* cleanup_loop: the heartbeat watchdog and the retention reaper.          *)
(***************************************************************************)
JOther == <<now, up, xvars, JOB_QUEUE, wvars, svars, cvars, dvars, fvars, hist, counts>>

\* 1530
Orphaned(rec, t) ==
  rec.status \in Active /\ t - rec.last_heartbeat > ORPHAN_RETENTION_SECONDS

\* 1535-1546
ShouldDelete(rec, t) ==
  IF rec.status = "done"
    THEN IF Config.AUTO_CLEANUP_AFTER_DOWNLOAD /\ rec.downloaded_at # None
           THEN t - rec.downloaded_at >= Config.DOWNLOAD_GRACE_SECONDS
           ELSE t - rec.updated_at >= DONE_RETENTION_SECONDS
  ELSE IF rec.status \in {"error", "cancelled"}
    THEN t - rec.updated_at >= ERROR_RETENTION_SECONDS
  ELSE FALSE

\* 1510-1516
JanitorBegin ==
  /\ up /\ ~SHUTDOWN /\ jpc = "idle" /\ Config.AUTO_CLEANUP_ENABLED
  /\ jnow' = now
  /\ jids' = DOMAIN JOBS
  /\ jpc' = "scan"
  /\ UNCHANGED <<jcur, JOBS, META_DIRTY, disk, JOther>>

\* 1518-1548: the next id of the tick, or the end of the tick.
JanitorScan ==
  /\ up /\ jpc = "scan"
  /\ IF jids = {}
       THEN /\ jpc' = "idle" /\ jcur' = NoJob /\ jnow' = 0
            /\ jticked' = TRUE
            /\ UNCHANGED <<jids, JOBS>>
       ELSE \E id \in jids :
            /\ jids' = jids \ {id}
            /\ jticked' = jticked
            /\ JOBS' = get_job(JOBS, id)
            /\ jnow' = jnow
            /\ IF id \notin DOMAIN JOBS'
                 THEN jpc' = "scan" /\ jcur' = NoJob
               ELSE IF Orphaned(JOBS'[id], jnow)
                 THEN jpc' = "wd_log" /\ jcur' = id
               ELSE IF ShouldDelete(JOBS'[id], jnow)
                 THEN jpc' = "del_lock" /\ jcur' = id
               ELSE jpc' = "scan" /\ jcur' = NoJob
  /\ UNCHANGED <<META_DIRTY, disk, now, up, tvars, SHUTDOWN, avars, purged, Config, evars,
                 JOB_QUEUE, wvars, svars, cvars, dvars, fvars, hist, counts>>

\* 1531
WatchdogLog ==
  /\ up /\ jpc = "wd_log"
  /\ JOBS' = append_log(JOBS, jcur)
  /\ META_DIRTY' = DirtyAfterWrite(JOBS, jcur)
  /\ jpc' = "wd_err"
  /\ UNCHANGED <<jids, jcur, jnow, disk, JOther>>

\* 1532
WatchdogError ==
  /\ up /\ jpc = "wd_err"
  /\ JOBS' = set_error(JOBS, jcur, "HEARTBEAT_TIMEOUT")
  /\ META_DIRTY' = DirtyAfterWrite(JOBS, jcur)
  /\ jpc' = "scan" /\ jcur' = NoJob
  /\ UNCHANGED <<jids, jnow, disk, JOther>>

\* _delete_job_artifacts, 1496
DeleteLock ==
  /\ up /\ jpc = "del_lock"
  /\ LOCKS' = release_job_lease(LOCKS, jcur)
  /\ jpc' = "del_files"
  /\ UNCHANGED <<jids, jcur, jnow, JOBS, META_DIRTY, META, UPLOADS, TMPDIRS,
                 OUTPUTS, JOther>>

\* _delete_job_artifacts, 1497-1502
DeleteFiles ==
  /\ up /\ jpc = "del_files"
  /\ UPLOADS' = UPLOADS \ {jcur}
  /\ TMPDIRS' = TMPDIRS \ {jcur}
  /\ OUTPUTS' = OUTPUTS \ {jcur}
  /\ META' = Remove(META, jcur)
  /\ jpc' = "del_pop"
  /\ UNCHANGED <<jids, jcur, jnow, JOBS, META_DIRTY, LOCKS, JOther>>

\* _delete_job_artifacts, 1503-1504
DeletePop ==
  /\ up /\ jpc = "del_pop"
  /\ JOBS' = Remove(JOBS, jcur)
  /\ jpc' = "scan" /\ jcur' = NoJob
  /\ purged' = purged \cup {jcur}
  /\ UNCHANGED <<jids, jnow, META_DIRTY, disk, now, up, tvars, SHUTDOWN, avars, Config, jticked, evars,
                 JOB_QUEUE, wvars, svars, cvars, dvars, fvars, hist, counts>>

(***************************************************************************)
(* meta_flush_loop: flush_meta_once(force_all=False).                      *)
(***************************************************************************)
FOther == <<now, up, xvars, JOB_QUEUE, LOCKS, UPLOADS, TMPDIRS, OUTPUTS, wvars, svars,
            cvars, dvars, jvars, hist, counts>>

\* 500, 480-484: while SHUTDOWN is not set, the dirty set is taken and cleared.
FlushBegin ==
  /\ up /\ ~SHUTDOWN /\ fpc = "idle" /\ META_DIRTY # {}
  /\ fids' = META_DIRTY
  /\ META_DIRTY' = {}
  /\ fpc' = "write"
  /\ UNCHANGED <<JOBS, META, FOther>>

\* 487-493: get_job, _snapshot_for_meta and save_meta of one id.
FlushWrite ==
  /\ up /\ fpc = "write"
  /\ \E id \in fids :
       /\ JOBS' = get_job(JOBS, id)
       /\ META' = IF id \in DOMAIN JOBS'
                    THEN (id :> SnapshotForMeta(JOBS'[id])) @@ META
                    ELSE META
       /\ fids' = fids \ {id}
       /\ fpc' = IF fids' = {} THEN "idle" ELSE "write"
  /\ UNCHANGED <<META_DIRTY, FOther>>

\* 500: meta_flush_loop finds SHUTDOWN set and returns; nothing follows the
\* loop.
FlushStop ==
  /\ up /\ SHUTDOWN /\ fpc = "idle"
  /\ fpc' = "stopped"
  /\ UNCHANGED <<fids, JOBS, META, META_DIRTY, FOther>>

\* SHUTDOWN.set(): the shutdown signal of the process.
Shutdown ==
  /\ up /\ ~SHUTDOWN
  /\ SHUTDOWN' = TRUE
  /\ UNCHANGED <<now, up, JOBS, META_DIRTY, JOB_QUEUE, disk, wvars, svars, cvars,
                 dvars, jvars, fvars, hist, counts, tvars, avars, purged, Config, jticked, evars>>

(***************************************************************************)
(* atomic_write_text(path, text), 272-279, on one path.  A text is a       *)
(* number 1..MaxTexts; the file system call write stores it in TextChunks  *)
(* pieces.  A content is <<>> for no file, else <<text, pieces stored>>.   *)
(***************************************************************************)
AOther == <<now, up, JOBS, META_DIRTY, JOB_QUEUE, disk, wvars, svars, cvars,
            dvars, jvars, fvars, hist, counts, tvars, SHUTDOWN, purged, Config,
            jticked, evars>>

\* path.with_suffix(path.suffix + ".tmp"), with the suffix left out.
tmp_is_path(path) == path

\* 274: tmp = path.with_suffix(path.suffix + ".tmp")
tmp(path) == path \o ".tmp"

Complete(content) == content # <<>> /\ content[2] = TextChunks

\* os.replace(src, dst): dst gets the content of src in one step.
replace(fs, src, dst) ==
  IF src = dst THEN fs ELSE [fs EXCEPT ![dst] = fs[src], ![src] = <<>>]

\* A caller (save_meta, process_job) calls atomic_write_text with a new text.
AWCall ==
  /\ apc = "idle" /\ atext < MaxTexts
  /\ atext' = atext + 1
  /\ apc' = "open"
  /\ UNCHANGED <<afs, AOther>>

\* 275: tmp.write_text opens tmp for writing, which creates or truncates it.
AWOpen ==
  /\ apc = "open"
  /\ afs' = [afs EXCEPT ![tmp("path")] = <<atext, 0>>]
  /\ apc' = "write"
  /\ UNCHANGED <<atext, AOther>>

\* 275: tmp.write_text stores the text, piece by piece, and closes.
AWWrite ==
  /\ apc = "write"
  /\ afs' = [afs EXCEPT ![tmp("path")] = <<@[1], @[2] + 1>>]
  /\ apc' = IF afs'[tmp("path")][2] = TextChunks THEN "sync" ELSE "write"
  /\ UNCHANGED <<atext, AOther>>

\* 276-278: reopen for append, flush, fsync.
AWSync ==
  /\ apc = "sync"
  /\ apc' = "replace"
  /\ UNCHANGED <<afs, atext, AOther>>

\* 279: os.replace(tmp, path)
AWReplace ==
  /\ apc = "replace"
  /\ afs' = replace(afs, tmp("path"), "path")
  /\ apc' = "idle"
  /\ UNCHANGED <<atext, AOther>>

\* The process dies inside the call; the files stay as they are and the next
\* process starts with no call running.
AWCrash ==
  /\ apc # "idle"
  /\ apc' = "idle"
  /\ UNCHANGED <<afs, atext, AOther>>

(***************************************************************************)
(* Process death and bootstrap().                                          *)
(***************************************************************************)
\* The process dies: its memory and threads are gone, jobs/ stays.
Crash ==
  /\ up /\ ncrash < MaxCrashes
  /\ ncrash' = ncrash + 1
  /\ up' = FALSE
  /\ JOBS' = EmptyMap
  /\ META_DIRTY' = {}
  /\ JOB_QUEUE' = <<>>
  /\ wpc' = [w \in Workers |-> "idle"]
  /\ wjob' = [w \in Workers |-> NoJob]
  /\ wseg' = [w \in Workers |-> 0]
  /\ wdone' = [w \in Workers |-> 0]
  /\ wres' = [w \in Workers |-> 0]
  /\ wempty' = [w \in Workers |-> FALSE]
  /\ wfail' = [w \in Workers |-> FALSE]
  /\ spc' = "idle" /\ sjob' = NoJob
  /\ cpc' = "idle" /\ cjob' = NoJob
  /\ dpc' = "idle" /\ djob' = NoJob
  /\ jpc' = "idle" /\ jids' = {} /\ jcur' = NoJob /\ jnow' = 0
  /\ fpc' = "idle" /\ fids' = {}
  /\ runs' = [id \in JobIds |-> 0]
  /\ recovered' = {}
  /\ handled' = {}
  /\ qcancel' = {}
  /\ observed' = {}
  /\ UNCHANGED <<now, disk, nstart, ncancel, ndownload, nenq, xvars>>

\* The test of 1815 without "and not cancel_requested".
ShouldRequeueAnyActive(rec) == rec.status \in Active

\* 1815
ShouldRequeue(rec) == rec.status \in Active /\ ~rec.cancel_requested

\* The orders in which a set of ids can be put into the queue.
Orders(S) ==
  {q \in [1..Cardinality(S) -> S] : \A i, k \in 1..Cardinality(S) : q[i] = q[k] => i = k}

\* 1794-1819: every meta/*.json is loaded, the queued and running ones are
\* put into the queue; then the threads start.
Bootstrap ==
  /\ ~up
  /\ up' = TRUE
  /\ JOBS' = META
  /\ JOB_QUEUE' \in Orders({id \in DOMAIN META : ShouldRequeue(META[id])})
  /\ recovered' = {id \in DOMAIN META :
                     /\ ShouldRequeue(META[id])
                     /\ META[id].status = "running"
                     /\ id \in LOCKS}
  /\ UNCHANGED <<now, META_DIRTY, disk, wvars, svars, cvars, dvars, jvars,
                 fvars, runs, handled, qcancel, observed, counts, xvars>>

(***************************************************************************)
(* transcribe_task: the task of one segment, run by a thread of the        *)
(* executor of the fan-out (1396-1400) for the job of worker 1, and the    *)
(* two providers.  A connection that fails before the request is sent is   *)
(* no POST to the provider and is not counted.                             *)
(***************************************************************************)
TaskJob == wjob[1]

TOther == <<now, up, META_DIRTY, JOB_QUEUE, META, LOCKS, UPLOADS, OUTPUTS, wvars,
            svars, cvars, dvars, jvars, fvars, hist, counts, SHUTDOWN, avars, purged, Config, jticked, evars>>

\* The methods the Retry of the HTTP session re-sends, with POST added.
allowed_methods_with_post == {"GET", "POST"}

\* 221: allowed_methods=frozenset(["GET"])
allowed_methods == {"GET"}

\* 214-222: the adapter re-sends a request whose answer is an error or a
\* status of status_forcelist, when its method is allowed and retries are left.
Resent(method, outcome, sent) ==
  /\ method \in allowed_methods
  /\ outcome \in {"status", "error"}
  /\ sent <= REQUEST_RETRY_TIMES

TaskRunning == {t \in Segments : tpc[t] \notin {"none", "submitted", "done"}}

TaskReturn(s, err) ==
  /\ tres' = [tres EXCEPT ![s] = err]
  /\ tpc' = [tpc EXCEPT ![s] = "unlink"]

\* 1229-1231: a thread of the executor takes the task.
TBegin(s) ==
  /\ up /\ tpc[s] = "submitted"
  /\ Cardinality(TaskRunning) < CONCURRENCY
  /\ TMPDIRS' = TMPDIRS \cup {TaskJob}
  /\ tpc' = [tpc EXCEPT ![s] = "check"]
  /\ tlate' = IF TaskJob \in DOMAIN JOBS /\ JOBS[TaskJob].cancel_requested
                THEN tlate \cup {s} ELSE tlate
  /\ UNCHANGED <<JOBS, tmodel, tsent, tposts, tcut, tres, TOther>>

\* 1233-1236: the returns before the try statement.
TCheck(s) ==
  /\ up /\ tpc[s] = "check"
  /\ JOBS' = get_job(JOBS, TaskJob)
  /\ IF is_cancel_requested(JOBS', TaskJob)
       THEN /\ tres' = [tres EXCEPT ![s] = "CANCELLED"]
            /\ tpc' = [tpc EXCEPT ![s] = "done"]
       ELSE \E short \in BOOLEAN :
            IF short
              THEN /\ tres' = [tres EXCEPT ![s] = "INVALID_SEGMENT_DURATION"]
                   /\ tpc' = [tpc EXCEPT ![s] = "done"]
              ELSE /\ tres' = tres
                   /\ tpc' = [tpc EXCEPT ![s] = "cut"]
  /\ UNCHANGED <<TMPDIRS, tmodel, tsent, tposts, tcut, tlate, TOther>>

\* 1239, 1247-1248: extract_segment_wav writes the segment file or raises.
TCut(s) ==
  /\ up /\ tpc[s] \in {"cut", "recut"}
  /\ tcut' = [tcut EXCEPT ![s] = @ + 1]
  /\ tsent' = [tsent EXCEPT ![s] = 0]
  /\ \E ok \in BOOLEAN :
       IF ok
         THEN /\ tpc' = [tpc EXCEPT ![s] = IF tpc[s] = "cut" THEN "post" ELSE "repost"]
              /\ tres' = tres
         ELSE TaskReturn(s, "FFMPEG_ERR")
  /\ UNCHANGED <<JOBS, TMPDIRS, tmodel, tposts, tlate, TOther>>

\* 1241-1251 with transcribe_with_deepgram (1106-1166) and transcribe_with_hf
\* (1169-1200): no key, or one send of SESSION.post and its answer: a
\* transcript, a transcript that normalizes to nothing, an empty transcript,
\* a status other than 200, or an exception.
TPost(s) ==
  /\ up /\ tpc[s] \in {"post", "repost"}
  /\ \E o \in {"nokey", "text", "blank", "empty", "status", "error"} :
       IF o = "nokey"
         THEN /\ tpc[s] = "post" /\ tsent[s] = 0
              /\ TaskReturn(s, "KEY_MISSING")
              /\ UNCHANGED <<tposts, tsent>>
         ELSE /\ tposts' = [tposts EXCEPT ![s] = @ + 1]
              /\ tsent' = [tsent EXCEPT ![s] = @ + 1]
              /\ IF Resent("POST", o, tsent[s] + 1)
                   THEN UNCHANGED <<tpc, tres>>
                 ELSE IF o = "text" THEN TaskReturn(s, "null")
                 ELSE IF o = "blank" THEN TaskReturn(s, "EMPTY_AFTER_NORMALIZE")
                 ELSE IF o = "status" THEN TaskReturn(s, "ERR_STATUS")
                 ELSE IF o = "error" THEN TaskReturn(s, "EXC")
                 ELSE IF tmodel = "kotoba" THEN TaskReturn(s, "HF_EMPTY_TRANSCRIPT")
                 ELSE IF tpc[s] = "post"
                   THEN /\ tpc' = [tpc EXCEPT ![s] = "recut"]
                        /\ tres' = tres
                 ELSE TaskReturn(s, "EMPTY_TRANSCRIPT")
  /\ UNCHANGED <<JOBS, TMPDIRS, tmodel, tcut, tlate, TOther>>

\* 1265, 1266: finally safe_unlink(seg_file)
TUnlink(s) ==
  /\ up /\ tpc[s] = "unlink"
  /\ tpc' = [tpc EXCEPT ![s] = "done"]
  /\ UNCHANGED <<JOBS, TMPDIRS, tmodel, tsent, tposts, tcut, tres, tlate, TOther>>

Task(s) == TBegin(s) \/ TCheck(s) \/ TCut(s) \/ TPost(s) \/ TUnlink(s)

\* The record of a job whose worker has reached the fan-out (1396): started
\* at t, progress 14, four log lines.
FanoutRec(t) ==
  [NewRec(t) EXCEPT !.status = "running", !.progress = 14, !.started_at = t,
                    !.log_seq = 4, !.logs = LogsUpTo(4)]

\* Worker 1 has submitted the tasks of the segments of job 1 and waits for
\* the first completion (1402); the model name selects the provider (1241).
InitTask ==
  /\ now = 0 /\ up = TRUE
  /\ JOBS = (1 :> FanoutRec(0))
  /\ META_DIRTY = {1}
  /\ JOB_QUEUE = <<>>
  /\ META = EmptyMap
  /\ LOCKS = {1} /\ UPLOADS = {1} /\ TMPDIRS = {1} /\ OUTPUTS = {}
  /\ wpc = [w \in Workers |-> IF w = 1 THEN "f_hb" ELSE "idle"]
  /\ wjob = [w \in Workers |-> IF w = 1 THEN 1 ELSE NoJob]
  /\ wseg = [w \in Workers |-> IF w = 1 THEN TotalSegments ELSE 0]
  /\ wdone = [w \in Workers |-> 0]
  /\ wres = [w \in Workers |-> 0]
  /\ wempty = [w \in Workers |-> FALSE]
  /\ wfail = [w \in Workers |-> FALSE]
  /\ spc = "idle" /\ sjob = NoJob
  /\ cpc = "idle" /\ cjob = NoJob
  /\ dpc = "idle" /\ djob = NoJob
  /\ jpc = "idle" /\ jids = {} /\ jcur = NoJob /\ jnow = 0
  /\ fpc = "idle" /\ fids = {}
  /\ runs = [id \in JobIds |-> IF id = 1 THEN 1 ELSE 0]
  /\ recovered = {} /\ handled = {} /\ qcancel = {} /\ observed = {}
  /\ nstart = 1 /\ ncancel = 0 /\ ndownload = 0 /\ ncrash = 0 /\ nenq = 0
  /\ tmodel \in {"general", "kotoba"}
  /\ tpc = [s \in Segments |-> "submitted"]
  /\ tsent = [s \in Segments |-> 0]
  /\ tposts = [s \in Segments |-> 0]
  /\ tcut = [s \in Segments |-> 0]
  /\ tres = [s \in Segments |-> "null"]
  /\ tlate = {}
  /\ EventInit /\ WriteInit /\ JanitorInit /\ ConfigInit /\ NoCall /\ NoPoll

(***************************************************************************)
(* The specifications.  Each next-state relation lists the steps that can  *)
(* be taken under it: a worker reaches its cancel branches only where      *)
(* api_cancel runs, and the refusal of the lease (PSkipLog) only where an  *)
(* id is popped twice or a lock file outlives its process.  No behaviour   *)
(* of these specifications removes the upload of a job a worker has        *)
(* popped, so WorkerNoUpload is in none of them.                           *)
(*   Spec      the running process: workers, API handlers and janitor.     *)
(*   SpecEnq   workers and janitor (the one other thread that unlinks a    *)
(*             lock file), with an id put into the queue a second time.    *)
(*   SpecCrash workers and flusher, with process death and restart.        *)
(*   SpecBoot  bootstrap() on any jobs/meta directory.                     *)
(*   SpecTask  the tasks of the fan-out of one job, with api_cancel.        *)
(***************************************************************************)
Threads ==
  \/ Tick
  \/ \E w \in Workers : WorkerRun(w)
  \/ StartInit \/ StartLog \/ StartPut
  \/ Bootstrap

Janitor ==
  \/ JanitorBegin \/ JanitorScan \/ WatchdogLog \/ WatchdogError
  \/ DeleteLock \/ DeleteFiles \/ DeletePop

Cancel ==
  \/ CancelBegin \/ CancelUpdate \/ CancelLog \/ CancelRead \/ CancelSet
  \/ \E w \in Workers : WorkerCancelled(w)

Next ==
  \/ Threads
  \/ Cancel
  \/ DownloadBegin \/ DownloadMark
  \/ Janitor

Spec == Init /\ [][Next]_vars

NextEnq ==
  \/ Threads
  \/ \E w \in Workers : PSkipLog(w)
  \/ Janitor
  \/ ManualEnqueue

SpecEnq == Init /\ [][NextEnq]_vars

NextCrash ==
  \/ Threads
  \/ \E w \in Workers : PSkipLog(w)
  \/ FlushBegin \/ FlushWrite
  \/ Crash

SpecCrash == Init /\ [][NextCrash]_vars

\* A record of a meta file as an earlier process can have left it.
MetaRec(st, c) ==
  [NewRec(0) EXCEPT !.status = st, !.cancel_requested = c,
                    !.progress = IF st = "done" THEN 100 ELSE 0,
                    !.result_path = IF st = "done" THEN "srt" ELSE "null",
                    !.error = IF st = "error" THEN "PIPELINE" ELSE "null"]

MetaRecs ==
  {MetaRec(st, c) : st \in Statuses, c \in BOOLEAN} \ {MetaRec("cancelled", FALSE)}

InitBoot ==
  /\ now = 0
  /\ MemoryInit
  /\ XInit
  /\ META \in UNION {[S -> MetaRecs] : S \in SUBSET JobIds}
  /\ LOCKS = {} /\ UPLOADS = DOMAIN META /\ TMPDIRS = {} /\ OUTPUTS = {}
  /\ nstart = 0 /\ ncancel = 0 /\ ndownload = 0 /\ ncrash = 0 /\ nenq = 0

NextBoot == Bootstrap \/ Crash

SpecBoot == InitBoot /\ [][NextBoot]_vars

NextTask ==
  \/ \E s \in Segments : Task(s)
  \/ CancelBegin \/ CancelUpdate \/ CancelLog \/ CancelRead

SpecTask == InitTask /\ [][NextTask]_vars

\* The record of a job whose pipeline ended with set_result at time t.
DoneRec(t) ==
  [status |-> "done", progress |-> 100, updated_at |-> t, started_at |-> t,
   finished_at |-> t, last_heartbeat |-> t, log_seq |-> 5,
   logs |-> LogsUpTo(5), error |-> "null",
   result_path |-> "srt", downloaded_at |-> None, cancel_requested |-> FALSE]

\* The service after job 1 is done and flushed: its upload and its SRT are
\* on disk, its lease is released, every thread waits.
InitDone ==
  /\ now = 0 /\ up = TRUE
  /\ JOBS = (1 :> DoneRec(0))
  /\ META = (1 :> SnapshotForMeta(DoneRec(0)))
  /\ META_DIRTY = {}
  /\ JOB_QUEUE = <<>>
  /\ LOCKS = {} /\ UPLOADS = {1} /\ TMPDIRS = {} /\ OUTPUTS = {1}
  /\ wpc = [w \in Workers |-> "idle"]
  /\ wjob = [w \in Workers |-> NoJob]
  /\ wseg = [w \in Workers |-> 0]
  /\ wdone = [w \in Workers |-> 0]
  /\ wres = [w \in Workers |-> 0]
  /\ wempty = [w \in Workers |-> FALSE]
  /\ wfail = [w \in Workers |-> FALSE]
  /\ spc = "idle" /\ sjob = NoJob
  /\ cpc = "idle" /\ cjob = NoJob
  /\ dpc = "idle" /\ djob = NoJob
  /\ jpc = "idle" /\ jids = {} /\ jcur = NoJob /\ jnow = 0
  /\ fpc = "idle" /\ fids = {}
  /\ runs = [id \in JobIds |-> IF id = 1 THEN 1 ELSE 0]
  /\ recovered = {} /\ handled = {1} /\ qcancel = {} /\ observed = {}
  /\ nstart = 1 /\ ncancel = 0 /\ ndownload = 0 /\ ncrash = 0 /\ nenq = 0
  /\ TaskInit /\ EventInit /\ WriteInit /\ JanitorInit /\ NoCall /\ NoPoll

InitPurge == InitDone /\ ConfigInit

\* 125-126: settings of the download clean-up an environment can give.
Configs ==
  [AUTO_CLEANUP_ENABLED : {AUTO_CLEANUP_ENABLED},
   AUTO_CLEANUP_AFTER_DOWNLOAD : BOOLEAN,
   DOWNLOAD_GRACE_SECONDS : {DOWNLOAD_GRACE_SECONDS, 4 * DONE_RETENTION_SECONDS}]

InitRetain == InitDone /\ Config \in Configs

\* The janitor's reaper, the flusher and api_download on the finished job.
NextPurge ==
  \/ Tick
  \/ JanitorBegin \/ JanitorScan \/ DeleteLock \/ DeleteFiles \/ DeletePop
  \/ FlushBegin \/ FlushWrite
  \/ DownloadBegin \/ DownloadMark

SpecPurge == InitPurge /\ [][NextPurge]_vars

SpecRetain == InitRetain /\ [][NextPurge]_vars

\* The record of a job whose pipeline a worker started at time t (1339).
RunningRec(t) ==
  [NewRec(t) EXCEPT !.status = "running", !.started_at = t, !.log_seq = 1,
                    !.logs = LogsUpTo(1)]

\* The process died while a worker ran job 1: the flushed record is running,
\* upload and lock file are on disk, and the heartbeat is TickSeconds old.
\* It died before normalize_to_wav, or later with tmp/1/ on disk, or after
\* atomic_write_text(out_path, srt) of 1446 with outputs/1.srt on disk too.
InitWatch ==
  /\ now = TickSeconds
  /\ MemoryInit
  /\ XInit
  /\ META = (1 :> RunningRec(0))
  /\ LOCKS = {1} /\ UPLOADS = {1}
  /\ \E left \in {<<{}, {}>>, <<{1}, {}>>, <<{1}, {1}>>} :
       TMPDIRS = left[1] /\ OUTPUTS = left[2]
  /\ nstart = 1 /\ ncancel = 0 /\ ndownload = 0 /\ ncrash = 1 /\ nenq = 0

\* The start of the process on that disk: bootstrap, the workers, the janitor.
NextWatch ==
  \/ Tick \/ Bootstrap
  \/ \E w \in Workers : WPop(w) \/ WCheck(w) \/ PLease(w) \/ PSkipLog(w)
  \/ Janitor

SpecWatch == InitWatch /\ [][NextWatch]_vars

\* Calls of atomic_write_text on one path, and process deaths.
NextWrite == AWCall \/ AWOpen \/ AWWrite \/ AWSync \/ AWReplace \/ AWCrash

SpecWrite == Init /\ [][NextWrite]_vars

\* The service without requests to cancel or download and without janitor.
SpecRun == Init /\ [][Threads]_vars

\* The service with its flusher and the shutdown signal.
NextStop == Threads \/ FlushBegin \/ FlushWrite \/ FlushStop \/ Shutdown

SpecStop == Init /\ [][NextStop]_vars

(***************************************************************************)
(* Regions of process_job, as sets of worker positions.                    *)
(***************************************************************************)
\* 1321-1337: after acquire_job_lease returned True, up to the try block.
EarlyPcs ==
  {"p_file", "p_miss_err", "p_miss_log", "p_cancel0", "p_c0_set", "p_c0_log",
   "p_running"}

\* 1339-1457: the try block after set_status(job_id, "running") of 1338.
PipelinePcs ==
  {"p_prog1", "p_log_start", "p_normalize", "p_hb_norm", "p_prog8",
   "p_log_norm", "p_vad", "p_hb_vad", "p_log_vad", "p_prog14", "p_cancel1",
   "p_c1_set", "p_c1_log", "f_hb", "f_cancel", "f_cancel_log", "f_warn",
   "f_prog", "p_cancel2", "p_c2_set", "p_c2_log", "p_log_empty", "p_log_fail",
   "p_write", "p_result", "p_log_done", "x_err", "x_log"}

\* 1460-1461: the finally block up to release_job_lease.
FinallyPcs == {"fin_rm", "fin_release"}

\* The positions at which a worker has acquired the lease and not released it.
HolderPcs == EarlyPcs \cup PipelinePcs \cup FinallyPcs

Occurrences(q, id) == Cardinality({i \in 1..Len(q) : q[i] = id})

(***************************************************************************)
(* The claims.                                                             *)
(***************************************************************************)

\* No two workers that popped the same id are both past acquire_job_lease.
C1_Exclusive ==
  \A w1, w2 \in Workers :
    (w1 # w2 /\ wjob[w1] # NoJob /\ wjob[w1] = wjob[w2])
      => ~(wpc[w1] \in HolderPcs /\ wpc[w2] \in HolderPcs)

\* The step of the worker that was refused the lease (1318, 1319).
C1_SkipOnlyLogs ==
  \A w \in Workers :
    (wpc[w] = "p_skip_log" /\ wpc'[w] = "idle" /\ wjob[w] \in DOMAIN JOBS)
      => /\ wjob[w] \in DOMAIN JOBS'
         /\ JOBS'[wjob[w]].status = JOBS[wjob[w]].status
         /\ JOBS'[wjob[w]].progress = JOBS[wjob[w]].progress
         /\ JOBS'[wjob[w]].error = JOBS[wjob[w]].error
         /\ JOBS'[wjob[w]].result_path = JOBS[wjob[w]].result_path
         /\ JOBS'[wjob[w]].cancel_requested = JOBS[wjob[w]].cancel_requested
         /\ JOBS'[wjob[w]].log_seq = JOBS[wjob[w]].log_seq + 1
         /\ META' = META /\ LOCKS' = LOCKS /\ UPLOADS' = UPLOADS
         /\ TMPDIRS' = TMPDIRS /\ OUTPUTS' = OUTPUTS

\* C1: per-job lease mutual exclusion.  Two workers that have popped the
\* same id are never both past acquire_job_lease (so never both in the
\* pipeline), and the worker the lease is refused to only appends a log
\* line: its step leaves the record's status, progress, error, result and
\* cancel flag and every file under jobs/ as they were.
C1_LeaseMutualExclusion == []C1_Exclusive /\ [][C1_SkipOnlyLogs]_vars

\* C1 witness: one worker is in the pipeline of a job while the other, which
\* popped the same id, has been refused the lease and is about to log.
C1_Witness ==
  \E w1, w2 \in Workers :
    /\ w1 # w2 /\ wjob[w1] # NoJob /\ wjob[w1] = wjob[w2]
    /\ wpc[w1] \in PipelinePcs
    /\ wpc[w2] = "p_skip_log"

\* C2: no double-spend.  Once a job's status is done, error or cancelled, no
\* worker starts the pipeline (set_status "running" of process_job) for it.
C2_NoStartOnceTerminal ==
  [][\A w \in Workers :
       (wpc[w] = "p_running" /\ wpc'[w] = "p_prog1" /\ wjob[w] \in DOMAIN JOBS)
         => JOBS[wjob[w]].status \notin Terminal]_vars

\* C3: crash recovery restarts running jobs.  A job that bootstrap() found
\* with status running, no cancel request and its lock file on disk, and that
\* a worker has popped and finished with, has had its pipeline started again.
C3_CrashedJobRestarted ==
  \A id \in recovered : id \in handled => runs[id] >= 1

\* C4: the bootstrap re-enqueue set.  After bootstrap() the registry holds
\* every meta record, and the queue holds exactly once each id whose record
\* is queued or running with cancel_requested false, and no other id.
C4_BootstrapRequeue ==
  up => /\ JOBS = META
        /\ \A id \in JobIds :
             Occurrences(JOB_QUEUE, id) =
               IF /\ id \in DOMAIN META
                  /\ META[id].status \in {"queued", "running"}
                  /\ META[id].cancel_requested = FALSE
               THEN 1 ELSE 0

\* C4 witness: after bootstrap() a running record is in the queue, a queued
\* record with a cancel request and a done record are loaded but not enqueued.
C4_Witness ==
  /\ up
  /\ \E a, b, c \in DOMAIN JOBS :
       /\ JOBS[a].status = "running" /\ ~JOBS[a].cancel_requested
       /\ JOBS[b].status = "queued" /\ JOBS[b].cancel_requested
       /\ JOBS[c].status = "done"
       /\ JOB_QUEUE = <<a>>

\* C5: the lease is always released.  Whenever a worker that acquired the
\* lease returns from process_job, locks/<id>.lock does not exist.
C5_LeaseReleasedOnReturn ==
  [][\A w \in Workers :
       (wpc[w] \in HolderPcs \cup {"fin_dirty"} /\ wpc'[w] = "idle")
         => wjob[w] \notin LOCKS']_vars

\* C6: stale lease reclamation.  When the watchdog has set a job to error
\* for its stale heartbeat, no lock file of that job remains.
C6_WatchdogUnlinksLock ==
  [][(jpc = "wd_err" /\ jpc' = "scan") => jcur \notin LOCKS']_vars

\* The edges of the status graph of spec section 3.
AllowedTransitions ==
  {<<"queued", "running">>, <<"running", "done">>, <<"queued", "cancelled">>,
   <<"running", "cancelled">>, <<"queued", "error">>, <<"running", "error">>}

\* C7: the status transition graph.  A record's status only moves
\* queued->running, running->done, queued->cancelled, running->cancelled,
\* queued->error or running->error; a terminal status never changes.
C7_StatusTransitions ==
  [][\A id \in DOMAIN JOBS \cap DOMAIN JOBS' :
       JOBS'[id].status # JOBS[id].status
         => <<JOBS[id].status, JOBS'[id].status>> \in AllowedTransitions]_vars

\* C8: terminal records are frozen.  Once a record's status is done, error
\* or cancelled, no field of it other than downloaded_at changes.
C8_TerminalFrozen ==
  [][\A id \in DOMAIN JOBS \cap DOMAIN JOBS' :
       JOBS[id].status \in Terminal
         => [JOBS'[id] EXCEPT !.downloaded_at = None]
              = [JOBS[id] EXCEPT !.downloaded_at = None]]_vars

\* C9: in every state of every record, progress = 100 exactly when the
\* status is done.
C9_ProgressHundredIffDone ==
  \A id \in DOMAIN JOBS : (JOBS[id].progress = 100) <=> (JOBS[id].status = "done")

\* C10: cancelling a queued job.  Once api_cancel has found a job queued and
\* set it cancelled, no worker runs a pipeline stage (the transcoder) for it.
C10_NoStageAfterQueuedCancel ==
  [][\A w \in Workers :
       (wpc[w] = "p_normalize" /\ wjob[w] \in qcancel)
         => wpc'[w] = "p_normalize"]_vars

\* C11: cancelling a running job.  A worker that has observed
\* cancel_requested in its pipeline takes no further result (wres and wdone
\* stay), writes no SRT, and when its process_job returns the status of the
\* job is cancelled.
C11_CancelRunning ==
  [][\A w \in Workers :
       w \in observed =>
         /\ wpc'[w] # "idle" => (wres'[w] = wres[w] /\ wdone'[w] = wdone[w])
         /\ wpc'[w] \notin {"p_write", "p_result", "p_log_done"}
         /\ (wpc'[w] = "idle" /\ wjob[w] \in DOMAIN JOBS')
              => JOBS'[wjob[w]].status = "cancelled"]_vars

\* C12: no dispatch after cancellation.  A transcribe_task that starts after
\* cancel_requested became true cuts no segment file and sends no provider
\* request, and the result it returns is CANCELLED.
C12_NoDispatchAfterCancel ==
  \A s \in tlate :
    /\ tcut[s] = 0 /\ tposts[s] = 0
    /\ tpc[s] \in {"check", "done"}
    /\ tpc[s] = "done" => tres[s] = "CANCELLED"

\* C12 witness: of two tasks one has sent its POST before the cancel request
\* and the other, started after it, has returned CANCELLED.
C12_Witness ==
  \E s, t \in Segments :
    /\ s \in tlate /\ tpc[s] = "done"
    /\ t \notin tlate /\ tposts[t] = 1

\* C13: transcription POSTs are never re-sent automatically.  A segment
\* causes at most two POSTs to the general provider and at most one POST to
\* the HF provider, whatever the provider answers.
C13_PostsBounded ==
  \A s \in Segments : tposts[s] <= (IF tmodel = "kotoba" THEN 1 ELSE 2)

\* C13 witness: the general provider answered the first POST of a segment
\* with an empty transcript and the retry with an error status; the task has
\* returned after these two POSTs.
C13_Witness ==
  \E s \in Segments :
    /\ tmodel = "general" /\ tposts[s] = 2
    /\ tpc[s] = "done" /\ tres[s] = "ERR_STATUS"

\* C14: a record of the registry whose id is neither in the dirty set nor
\* among the ids the running flusher tick still has to write is on disk as it
\* is in memory, and every write of the flusher stores the record as it is at
\* that moment; so a tick that starts after a mutation has returned takes the
\* id with the dirty set and ends only after it wrote a snapshot holding the
\* mutation, and a mutation that falls between the clearing of the dirty set
\* and the snapshot is either in the snapshot or marks the id dirty again.
C14_Flushed ==
  \A id \in DOMAIN JOBS :
    id \notin META_DIRTY \cup fids
      => id \in DOMAIN META /\ META[id] = SnapshotForMeta(JOBS[id])

C14_WritesCurrent ==
  \A id \in fids \ fids' :
    id \in DOMAIN JOBS' => id \in DOMAIN META' /\ META'[id] = SnapshotForMeta(JOBS'[id])

C16_MemoryNotBehindDisk ==
  \A id \in DOMAIN JOBS \cap DOMAIN META :
    /\ JOBS[id].updated_at >= META[id].updated_at
    /\ JOBS[id].log_seq >= META[id].log_seq

C16_Witness ==
  \E id \in DOMAIN JOBS \cap DOMAIN META :
    /\ ncrash = 1 /\ up
    /\ JOBS[id].updated_at > META[id].updated_at
    /\ JOBS[id].log_seq > META[id].log_seq
    /\ META[id].log_seq > 0

\* C15: once the shutdown signal is set and the flusher has terminated, with
\* no worker and no handler in the middle of a call, every record of the
\* registry equals its meta/<id>.json snapshot.
C15_FinalFlush ==
  (/\ SHUTDOWN /\ fpc = "stopped" /\ spc = "idle"
   /\ \A w \in Workers : wpc[w] = "idle")
    => \A id \in DOMAIN JOBS :
         id \in DOMAIN META /\ META[id] = SnapshotForMeta(JOBS[id])

\* C17: whatever step of atomic_write_text the process dies in, path holds
\* no file (when it never had one), or the complete previous text, or the
\* complete new text; every step leaves path as it was or puts the complete
\* text of the call there.
C17_PathComplete == afs["path"] = <<>> \/ Complete(afs["path"])

C17_OldOrNew ==
  afs'["path"] = afs["path"] \/ afs'["path"] = <<atext, TextChunks>>

C17_CrashAtomic == []C17_PathComplete /\ [][C17_OldOrNew]_vars

C17_Witness ==
  /\ apc = "idle" /\ atext = 2
  /\ afs["path"] = <<1, TextChunks>>
  /\ afs[tmp("path")] = <<2, 1>>

\* C18: once the janitor has purged a job id, none of uploads/<id>/,
\* tmp/<id>/, outputs/<id>.srt, meta/<id>.json, locks/<id>.lock exists and
\* the registry has no record of the id, and this stays so whatever the
\* flusher, a download and get_job do afterwards.
C18_PurgeFinal ==
  \A id \in purged :
    /\ id \notin UPLOADS \cup TMPDIRS \cup OUTPUTS \cup LOCKS
    /\ id \notin DOMAIN META
    /\ id \notin DOMAIN JOBS

\* C19: in every janitor tick, a record the tick reads with status done and
\* now - updated_at >= DONE_RETENTION_SECONDS is handed to
\* _delete_job_artifacts in that tick, downloaded or not, whatever
\* AUTO_CLEANUP_AFTER_DOWNLOAD and DOWNLOAD_GRACE_SECONDS are.
C19_DoneRetention ==
  [][\A id \in jids \ jids' :
       (/\ id \in DOMAIN JOBS'
        /\ JOBS'[id].status = "done"
        /\ jnow - JOBS'[id].updated_at >= DONE_RETENTION_SECONDS)
         => jpc' = "del_lock" /\ jcur' = id]_vars

\* C20: a record bootstrap loaded with status running and a last_heartbeat
\* older than ORPHAN_RETENTION_SECONDS has status error (or is purged) once
\* the janitor has completed its first tick after the start.
C20_BootWatchdog ==
  jticked => \A id \in recovered :
               id \in DOMAIN JOBS => JOBS[id].status = "error"

\* The watchdog within a tick: a record the tick reads as queued or running
\* with a heartbeat older than ORPHAN_RETENTION_SECONDS goes to the watchdog
\* branch, which leaves it with status error.
WatchdogInTick ==
  /\ \A id \in jids \ jids' :
       (id \in DOMAIN JOBS' /\ Orphaned(JOBS'[id], jnow))
         => jpc' = "wd_log" /\ jcur' = id
  /\ (jpc = "wd_err" /\ jpc' # "wd_err" /\ jcur \in DOMAIN JOBS')
       => JOBS'[jcur].status = "error"

C23_NoResultForFailed ==
  \A id \in DOMAIN JOBS :
    JOBS[id].status \in {"error", "cancelled"} => id \notin OUTPUTS

\* The seq values of a log list are strictly increasing.
SeqIncreasing(logs) ==
  \A i \in 1..Len(logs) : \A k \in 1..Len(logs) : i < k => logs[i] < logs[k]

\* C24: for every job, log_seq never decreases, every change of it is one
\* append_log that adds 1 and puts an entry with the new value at the end of
\* logs, and the seq values of the entries in logs are strictly increasing at
\* all times, whoever appends (worker, cancel handler, janitor) and whether or
\* not the list was cut to its last LOG_MAX_LINES entries.
C24_LogSeqMonotone ==
  /\ [](\A id \in DOMAIN JOBS :
          /\ SeqIncreasing(JOBS[id].logs)
          /\ Len(JOBS[id].logs) <= LOG_MAX_LINES
          /\ JOBS[id].logs # <<>>
               => JOBS[id].logs[Len(JOBS[id].logs)] = JOBS[id].log_seq)
  /\ [][\A id \in DOMAIN JOBS \cap DOMAIN JOBS' :
          /\ JOBS'[id].log_seq \in {JOBS[id].log_seq, JOBS[id].log_seq + 1}
          /\ JOBS'[id].log_seq = JOBS[id].log_seq
               => JOBS'[id].logs = JOBS[id].logs]_vars

\* A job whose log list has been cut and holds lines of the cancel handler
\* and of the janitor's watchdog next to those of the worker.
C24_Witness ==
  \E id \in DOMAIN JOBS :
    /\ JOBS[id].log_seq > LOG_MAX_LINES
    /\ Len(JOBS[id].logs) = LOG_MAX_LINES
    /\ JOBS[id].logs[1] > 1
    /\ JOBS[id].cancel_requested
    /\ jpc = "wd_err" /\ jcur = id

\* The positions of an execution after its first set_progress (1339) and
\* before its finally block.
ProgressPcs == PipelinePcs \ {"p_prog1"}

\* C25: the progress of a job is always in [0,100]; while a worker executes
\* the job, from its first progress write to its terminal status, no step
\* lowers the progress; it is 14 when the fan-out starts, it is
\* 14 + 80*done/total (its integer part) after the write that follows the
\* done-th completed future, and it is at most 94 until set_result.
C25_ProgressMonotone ==
  /\ [](\A id \in DOMAIN JOBS : JOBS[id].progress \in 0..100)
  /\ [](\A w \in Workers :
          (wpc[w] \in ProgressPcs /\ wjob[w] \in DOMAIN JOBS)
            => /\ wpc[w] \in {"p_cancel1", "p_c1_set", "p_c1_log"}
                    \/ (wpc[w] = "f_hb" /\ wdone[w] = 0)
                  => JOBS[wjob[w]].progress = 14
               /\ wpc[w] # "p_log_done" => JOBS[wjob[w]].progress <= 94)
  /\ [][\A w \in Workers :
          (wpc[w] \in ProgressPcs /\ wjob[w] \in DOMAIN JOBS \cap DOMAIN JOBS')
            => /\ JOBS'[wjob[w]].progress >= JOBS[wjob[w]].progress
               /\ (wpc[w] = "f_prog" /\ wpc'[w] # "f_prog")
                    => LET p == JOBS'[wjob[w]].progress - 14
                       IN /\ p * wseg[w] <= 80 * wdone[w]
                          /\ 80 * wdone[w] < (p + 1) * wseg[w]]_vars

\* A worker has written the progress after the last of two completed futures.
C25_Witness ==
  \E w \in Workers :
    /\ wpc[w] = "p_cancel2" /\ wseg[w] = 2 /\ wdone[w] = 2
    /\ wjob[w] \in DOMAIN JOBS
    /\ JOBS[wjob[w]].progress = 94

(***************************************************************************)
(* Segmentation: detect_speech_segments (720-769) followed by              *)
(* optimize_segments_for_transcription (835-883).  Times are in hundredths *)
(* of a second; a SpeechSeg is <<start, end>>.                             *)
(***************************************************************************)
MAX_SEGMENT_SECONDS == 1500   \* 15.0 s
MIN_SEGMENT_SECONDS == 25     \* 0.25 s

Max(a, b) == IF a >= b THEN a ELSE b
Min(a, b) == IF a <= b THEN a ELSE b

\* SpeechSeg.dur
dur(seg) == Max(0, seg[2] - seg[1])

\* 737-743: the VAD items clipped to [0, total_dur], the empty ones left out.
Pairs(speech_ts, total_dur) ==
  SelectSeq([i \in 1..Len(speech_ts) |->
               <<Max(0, speech_ts[i][1]), Min(total_dur, speech_ts[i][2])>>],
            LAMBDA p : p[2] > p[1])

\* 761-767: the pieces of a long segment from cur on.
RECURSIVE Chunks(_, _)
Chunks(cur, end) ==
  IF cur < end - 5
    THEN LET nxt == Min(cur + MAX_SEGMENT_SECONDS, end)
         IN <<<<cur, nxt>>>> \o Chunks(nxt, end)
    ELSE <<>>

\* 755-767
RECURSIVE ForcedSplit(_)
ForcedSplit(filtered) ==
  IF filtered = <<>> THEN <<>>
  ELSE LET seg == Head(filtered)
       IN (IF dur(seg) <= MAX_SEGMENT_SECONDS THEN <<seg>>
           ELSE Chunks(seg[1], seg[2])) \o ForcedSplit(Tail(filtered))

detect_speech_segments(total_dur, speech_ts) ==
  IF total_dur <= 5 THEN <<>>
  ELSE LET found == Pairs(speech_ts, total_dur)
           pairs == IF found = <<>> THEN <<<<0, total_dur>>>> ELSE found
           kept == SelectSeq(pairs, LAMBDA p : p[2] - p[1] >= MIN_SEGMENT_SECONDS)
           filtered == IF kept = <<>> THEN <<<<0, total_dur>>>> ELSE kept
       IN ForcedSplit(filtered)

\* 853: sorted(segments, key=lambda x: (x.start, x.end))
RECURSIVE InsertSeg(_, _)
InsertSeg(seg, list) ==
  IF list = <<>> THEN <<seg>>
  ELSE IF seg[1] < list[1][1] \/ (seg[1] = list[1][1] /\ seg[2] <= list[1][2])
         THEN <<seg>> \o list
         ELSE <<list[1]>> \o InsertSeg(seg, Tail(list))

RECURSIVE sorted(_)
sorted(segments) ==
  IF segments = <<>> THEN <<>>
  ELSE InsertSeg(segments[Len(segments)],
                 sorted(SubSeq(segments, 1, Len(segments) - 1)))

\* The loop of 858-878 without the test of the gap at 868.
RECURSIVE MergeShort_any_gap(_, _, _, _, _)
MergeShort_any_gap(src, out, min_dur, merge_gap, max_dur) ==
  IF src = <<>> THEN out
  ELSE LET seg == Head(src)
           prev == out[Len(out)]
           next ==
             IF dur(seg) >= min_dur THEN Append(out, seg)
             ELSE IF out # <<>> /\ seg[2] - prev[1] <= max_dur
               THEN [out EXCEPT ![Len(out)] = <<prev[1], Max(prev[2], seg[2])>>]
             ELSE IF 10 * dur(seg) >= Max(220, 6 * min_dur) THEN Append(out, seg)
             ELSE out
       IN MergeShort_any_gap(Tail(src), next, min_dur, merge_gap, max_dur)

\* 858-878: the loop over src from its current element on.
RECURSIVE MergeShort(_, _, _, _, _)
MergeShort(src, out, min_dur, merge_gap, max_dur) ==
  IF src = <<>> THEN out
  ELSE LET seg == Head(src)
           prev == out[Len(out)]
           next ==
             IF dur(seg) >= min_dur THEN Append(out, seg)
             ELSE IF /\ out # <<>>
                     /\ Max(0, seg[1] - prev[2]) <= merge_gap
                     /\ seg[2] - prev[1] <= max_dur
               THEN [out EXCEPT ![Len(out)] = <<prev[1], Max(prev[2], seg[2])>>]
             ELSE IF 10 * dur(seg) >= Max(220, 6 * min_dur) THEN Append(out, seg)
             ELSE out
       IN MergeShort(Tail(src), next, min_dur, merge_gap, max_dur)

optimize_segments_for_transcription(segments, min_sec, gap_sec, max_sec) ==
  IF segments = <<>> THEN <<>>
  ELSE LET src == sorted(segments)
           out == MergeShort(src, <<>>, clamp(min_sec, 20, 200),
                             clamp(gap_sec, 0, 100), Max(200, max_sec))
       IN IF out = <<>> THEN <<src[1]>> ELSE out

\* The inputs: instants of the audio, the outputs of get_speech_timestamps
\* (at most MaxItems items, each start < end, in order, not overlapping), the
\* durations of the audio and the two options of the request.
MaxItems == 2
Instants == {0, 10, 40, 300, 1510, 1523, 1800}
Durations == {4, 20, 300, 1523, 1800}
VadItems == {p \in Instants \X Instants : p[1] < p[2]}
VadOutputs ==
  {ts \in UNION {[1..n -> VadItems] : n \in 0..MaxItems} :
     \A i \in 1..Len(ts) - 1 : ts[i][2] <= ts[i + 1][1]}
MinTranscribeOptions == {20, 45, 200}
MergeGapOptions == {0, 20, 100}

InitSeg ==
  /\ AtRest
  /\ call = "detect_speech_segments"
  /\ args \in [total_dur : Durations, speech_ts : VadOutputs,
               min_transcribe_segment_seconds : MinTranscribeOptions,
               short_segment_merge_gap_seconds : MergeGapOptions]
  /\ ret = <<>>

\* 1354-1357
DetectSpeechSegments ==
  /\ call = "detect_speech_segments"
  /\ ret' = detect_speech_segments(args.total_dur, args.speech_ts)
  /\ call' = IF ret' = <<>> THEN "raise"
             ELSE "optimize_segments_for_transcription"
  /\ UNCHANGED <<args, EOther>>

\* 1371-1376
OptimizeSegments ==
  /\ call = "optimize_segments_for_transcription"
  /\ ret' = optimize_segments_for_transcription(
              ret, args.min_transcribe_segment_seconds,
              args.short_segment_merge_gap_seconds, MAX_SEGMENT_SECONDS)
  /\ call' = "fanout"
  /\ UNCHANGED <<args, EOther>>

NextSeg == DetectSpeechSegments \/ OptimizeSegments

SpecSeg == InitSeg /\ [][NextSeg]_vars

\* C26: every segment handed to the fan-out has a duration between
\* MIN_SEGMENT_SECONDS and MAX_SEGMENT_SECONDS, unless it is the only segment
\* and spans the whole audio.
C26_SegmentBounds ==
  call = "fanout" =>
    \A i \in 1..Len(ret) :
      \/ /\ MIN_SEGMENT_SECONDS <= dur(ret[i])
         /\ dur(ret[i]) <= MAX_SEGMENT_SECONDS
      \/ Len(ret) = 1 /\ ret[1] = <<0, args.total_dur>>

(***************************************************************************)
(* build_srt (1269-1306) on the ok results of a job.  Times are in         *)
(* milliseconds.  A result is [idx, start, end, lines], lines being what   *)
(* split_text_for_srt makes of its text: a line is modelled by its number  *)
(* of characters, and two lines are the same text when the numbers are     *)
(* equal.  A cue is <<start, end, text>>.                                  *)
(***************************************************************************)
RECURSIVE SumWeights(_)
SumWeights(lines) ==
  IF lines = <<>> THEN 0 ELSE Max(1, Head(lines)) + SumWeights(Tail(lines))

\* 1058-1065: the cues of lines[i..] when the previous cue ended at t.
RECURSIVE RawCues(_, _, _, _, _)
RawCues(lines, i, t, seg_end, d) ==
  IF i > Len(lines) THEN <<>>
  ELSE LET piece == Max(300, (d * Max(1, lines[i])) \div SumWeights(lines))
           nxt == IF i = Len(lines) THEN seg_end ELSE Min(seg_end, t + piece)
       IN <<<<t, nxt, lines[i]>>>> \o RawCues(lines, i + 1, nxt, seg_end, d)

\* 1068-1074
RECURSIVE FixCues(_, _)
FixCues(cues, prev_end) ==
  IF cues = <<>> THEN <<>>
  ELSE LET st == Max(Head(cues)[1], prev_end)
           en == Max(Head(cues)[2], st + 180)
       IN <<<<st, en, Head(cues)[3]>>>> \o FixCues(Tail(cues), en)

allocate_line_times(seg_start, seg_end, lines) ==
  IF lines = <<>> THEN <<>>
  ELSE IF Len(lines) = 1 THEN <<<<seg_start, seg_end, lines[1]>>>>
  ELSE LET fixed == FixCues(RawCues(lines, 1, seg_start, seg_end,
                                    Max(200, seg_end - seg_start)),
                            seg_start)
           n == Len(fixed)
       IN [fixed EXCEPT ![n] = <<fixed[n][1], Max(fixed[n][1] + 180, seg_end),
                                 fixed[n][3]>>]

\* 1271: sorted(..., key=lambda x: (x.start, x.end, x.idx))
RECURSIVE InsertResult(_, _)
InsertResult(r, list) ==
  IF list = <<>> THEN <<r>>
  ELSE IF \/ r.start < list[1].start
          \/ (r.start = list[1].start /\ r.end < list[1].end)
          \/ (r.start = list[1].start /\ r.end = list[1].end
              /\ r.idx <= list[1].idx)
         THEN <<r>> \o list
         ELSE <<list[1]>> \o InsertResult(r, Tail(list))

RECURSIVE SortedResults(_)
SortedResults(results) ==
  IF results = <<>> THEN <<>>
  ELSE InsertResult(results[Len(results)],
                    SortedResults(SubSeq(results, 1, Len(results) - 1)))

\* 1273-1277
RECURSIVE AllCues(_)
AllCues(results) ==
  IF results = <<>> THEN <<>>
  ELSE allocate_line_times(Head(results).start, Head(results).end,
                           Head(results).lines) \o AllCues(Tail(results))

\* 1280-1289
RECURSIVE FinalCues(_, _)
FinalCues(cues, prev_end) ==
  IF cues = <<>> THEN <<>>
  ELSE LET st == Max(Head(cues)[1], prev_end)
           en == IF Head(cues)[2] <= st THEN st + 200 ELSE Head(cues)[2]
       IN <<<<st, en, Head(cues)[3]>>>> \o FinalCues(Tail(cues), en)

\* The loop of 1292-1299 keeping the end of the first cue at 1297.
RECURSIVE CompactCues_first_end(_, _)
CompactCues_first_end(final_cues, compact) ==
  IF final_cues = <<>> THEN compact
  ELSE LET c == Head(final_cues)
           p == compact[Len(compact)]
       IN CompactCues_first_end(Tail(final_cues),
            IF compact # <<>> /\ c[3] = p[3] /\ c[1] - p[2] <= 120
              THEN compact
              ELSE Append(compact, c))

\* 1292-1299
RECURSIVE CompactCues(_, _)
CompactCues(final_cues, compact) ==
  IF final_cues = <<>> THEN compact
  ELSE LET c == Head(final_cues)
           p == compact[Len(compact)]
       IN CompactCues(Tail(final_cues),
            IF compact # <<>> /\ c[3] = p[3] /\ c[1] - p[2] <= 120
              THEN [compact EXCEPT ![Len(compact)] = <<p[1], Max(p[2], c[2]), p[3]>>]
              ELSE Append(compact, c))

\* The inputs: up to MaxResults ok results in their order of arrival, with
\* distinct idx, the times of a segment and the lines of its text.
MaxResults == 2
SegmentTimes ==
  {<<0, 400>>, <<0, 500>>, <<0, 1500>>, <<600, 800>>, <<600, 1500>>}
LineLists == {<<4>>, <<5, 5>>, <<5, 3, 5>>}
ResultLists ==
  {rs \in UNION {[1..n -> [idx : 0..MaxResults - 1, start : {0, 600},
                           end : {400, 500, 800, 1500}, lines : LineLists]]
                   : n \in 1..MaxResults} :
     /\ \A i \in 1..Len(rs) : <<rs[i].start, rs[i].end>> \in SegmentTimes
     /\ \A i \in 1..Len(rs) : \A k \in 1..Len(rs) : i # k => rs[i].idx # rs[k].idx}

InitSrt ==
  /\ AtRest
  /\ call = "build_srt"
  /\ args \in ResultLists
  /\ ret = <<>>

\* 1271-1277
BuildCues ==
  /\ call = "build_srt"
  /\ ret' = AllCues(SortedResults(args))
  /\ call' = "final_cues"
  /\ UNCHANGED <<args, EOther>>

\* 1279-1289
BuildFinal ==
  /\ call = "final_cues"
  /\ ret' = FinalCues(ret, 0)
  /\ call' = "compact_cues"
  /\ UNCHANGED <<args, EOther>>

\* 1291-1299
BuildCompact ==
  /\ call = "compact_cues"
  /\ ret' = CompactCues(ret, <<>>)
  /\ call' = "lines_out"
  /\ UNCHANGED <<args, EOther>>

\* 1301-1305: the blocks of the file, each a cue followed by its number.
WriteSrt ==
  /\ call = "lines_out"
  /\ ret' = [i \in 1..Len(ret) |-> ret[i] \o <<i>>]
  /\ call' = "written"
  /\ UNCHANGED <<args, EOther>>

NextSrt == BuildCues \/ BuildFinal \/ BuildCompact \/ WriteSrt

SpecSrt == InitSrt /\ [][NextSrt]_vars

\* C27: in the cues build_srt writes, every cue lasts at least 0.18 s and
\* every cue starts at or after the end of the cue before it.
C27_CueTiming ==
  call = "written" =>
    \A i \in 1..Len(ret) :
      /\ ret[i][2] >= ret[i][1] + 180
      /\ i < Len(ret) => ret[i + 1][1] >= ret[i][2]

(***************************************************************************)
(* normalize_transcript_text (922-951).  A text is a sequence of tokens:   *)
(* a token is one character (U+FF0C the fullwidth comma, U+4E2D a CJK      *)
(* ideograph), except "amp;" which stands for the four characters that    *)
(* follow the "&" of the entity "&amp;".  The only white                   *)
(* space of the alphabet is " ", so 926-928 (ideographic space, tabs,      *)
(* newlines) leave these texts as they are.                                *)
(***************************************************************************)
MaxTokens == 4
Tokens == {"&", "amp;", " ", "!", "U+FF0C", "(", ")", "U+4E2D"}
Cjk == {"U+4E2D"}

\* x without the positions in D.
Drop(x, D) ==
  LET F[i \in 0..Len(x)] ==
        IF i = 0 THEN <<>>
        ELSE IF i \in D THEN F[i - 1] ELSE Append(F[i - 1], x[i])
  IN F[Len(x)]

\* The character before and after the run of spaces around position i;
\* "^" and "$" stand for the start and the end of the text.
Before(x, i) ==
  LET js == {j \in 1..i - 1 : x[j] # " "}
  IN IF js = {} THEN "^" ELSE x[CHOOSE j \in js : \A k \in js : k <= j]
After(x, i) ==
  LET js == {j \in i + 1..Len(x) : x[j] # " "}
  IN IF js = {} THEN "$" ELSE x[CHOOSE j \in js : \A k \in js : j <= k]

\* re.sub of a pattern \s+ between a character of L and a character of R.
StripSpaces(x, L, R) ==
  Drop(x, {i \in 1..Len(x) : x[i] = " " /\ Before(x, i) \in L /\ After(x, i) \in R})

AnyLeft == Tokens \cup {"^"}
AnyRight == Tokens \cup {"$"}

\* 925: html.unescape, one pass from left to right; the character it puts
\* in place of an entity is not read again.
RECURSIVE unescape(_)
unescape(x) ==
  IF x = <<>> THEN <<>>
  ELSE IF Len(x) >= 2 /\ x[1] = "&" /\ x[2] = "amp;"
    THEN <<"&">> \o unescape(SubSeq(x, 3, Len(x)))
    ELSE <<x[1]>> \o unescape(Tail(x))

\* 929: re.sub(r"\s{2,}", " ", x).strip()
CollapseSpaces(x) ==
  StripSpaces(StripSpaces(Drop(x, {i \in 2..Len(x) : x[i] = " " /\ x[i - 1] = " "}),
                          {"^"}, AnyRight),
              AnyLeft, {"$"})

\* 941: a run of three or more of one punctuation mark becomes two.
FoldPunctuation(x) ==
  Drop(x, {i \in 3..Len(x) :
             x[i] \in {"!", "U+FF0C"} /\ x[i - 1] = x[i] /\ x[i - 2] = x[i]})

normalize_transcript_text(text, language, model) ==
  IF text = <<>> THEN <<>>
  ELSE LET x1 == CollapseSpaces(unescape(text))
           x2 == StripSpaces(x1, Cjk, Cjk)
           x3 == StripSpaces(x2, AnyLeft, {"U+FF0C", "!"})
           x4 == StripSpaces(x3, {"("}, AnyRight)
           x5 == StripSpaces(x4, AnyLeft, {")"})
           x6 == FoldPunctuation(x5)
           x7 == IF language \in {"zh", "ja", "auto"} \/ model = "whisper-large"
                   THEN StripSpaces(StripSpaces(StripSpaces(x6, Cjk, Cjk),
                                                Cjk, {"U+FF0C"}),
                                    {"U+FF0C"}, Cjk)
                   ELSE x6
       IN StripSpaces(StripSpaces(x7, {"^"}, AnyRight), AnyLeft, {"$"})

InitNorm ==
  /\ AtRest
  /\ call = "normalize_transcript_text"
  /\ args \in [text : UNION {[1..n -> Tokens] : n \in 0..MaxTokens},
               language : {"zh", "en"}, model : {"nova-2", "whisper-large"}]
  /\ ret = <<>>

\* The call on the transcript.
Normalize ==
  /\ call = "normalize_transcript_text"
  /\ ret' = <<normalize_transcript_text(args.text, args.language, args.model)>>
  /\ call' = "normalize_again"
  /\ UNCHANGED <<args, EOther>>

\* The call on the result of the first.
NormalizeAgain ==
  /\ call = "normalize_again"
  /\ ret' = Append(ret, normalize_transcript_text(ret[1], args.language, args.model))
  /\ call' = "returned"
  /\ UNCHANGED <<args, EOther>>

NextNorm == Normalize \/ NormalizeAgain

SpecNorm == InitNorm /\ [][NextNorm]_vars

\* C28: normalizing a normalized transcript gives the same text.
C28_Idempotent == call = "returned" => ret[2] = ret[1]

(***************************************************************************)
(* srt_ts (396-401).  A number of seconds is an integer count of tenths of *)
(* a millisecond, so that seconds * 1000 has one decimal; a string is a    *)
(* sequence of characters.                                                 *)
(***************************************************************************)
DigitChars == <<"0", "1", "2", "3", "4", "5", "6", "7", "8", "9">>

\* A round that drops the decimal.
round_down(v) == v \div 10

\* round(v) of a number with one decimal: to the nearest integer, a half to
\* the even one.
round(v) ==
  LET q == v \div 10
      r == v % 10
  IN IF r < 5 THEN q
     ELSE IF r > 5 THEN q + 1
     ELSE IF q % 2 = 0 THEN q ELSE q + 1

\* divmod(a, b)
divmod(a, b) == <<a \div b, a % b>>

RECURSIVE Decimal(_)
Decimal(n) ==
  IF n < 10 THEN <<DigitChars[n + 1]>>
  ELSE Append(Decimal(n \div 10), DigitChars[(n % 10) + 1])

\* f"{n:0wd}": the decimal digits of n, zeros in front up to the width w.
RECURSIVE Format(_, _)
Format(n, w) ==
  IF Len(Decimal(n)) >= w THEN Decimal(n)
  ELSE <<"0">> \o Format(n, w - 1)

srt_ts(seconds) ==
  LET h == divmod(round(Max(0, seconds)), 3600000)
      m == divmod(h[2], 60000)
      sc == divmod(m[2], 1000)
  IN Format(h[1], 2) \o <<":">> \o Format(m[1], 2) \o <<":">>
       \o Format(sc[1], 2) \o <<",">> \o Format(sc[2], 3)

\* The reader of a timestamp HH:MM:SS,mmm: the four fields as numbers.
RECURSIVE Number(_)
Number(digits) ==
  IF digits = <<>> THEN 0
  ELSE 10 * Number(SubSeq(digits, 1, Len(digits) - 1))
         + ((CHOOSE d \in 1..10 : DigitChars[d] = digits[Len(digits)]) - 1)

Fields(str) ==
  LET c1 == CHOOSE i \in 1..Len(str) :
              str[i] = ":" /\ \A k \in 1..i - 1 : str[k] # ":"
      c2 == CHOOSE i \in c1 + 1..Len(str) :
              str[i] = ":" /\ \A k \in c1 + 1..i - 1 : str[k] # ":"
      c3 == CHOOSE i \in 1..Len(str) : str[i] = ","
  IN <<SubSeq(str, 1, c1 - 1), SubSeq(str, c1 + 1, c2 - 1),
       SubSeq(str, c2 + 1, c3 - 1), SubSeq(str, c3 + 1, Len(str))>>

\* The inputs: the tenths of a millisecond around 0, 1 s, 1 min, 1 h and
\* 10 h.
MaxOffset == 25
Seconds ==
  {b + d : b \in {0, 9990, 599990, 35999990, 359999990}, d \in 0..MaxOffset}

InitTs ==
  /\ AtRest
  /\ call = "srt_ts"
  /\ args \in Seconds
  /\ ret = <<>>

\* 1303: the timestamp of a cue is formatted.
FormatTs ==
  /\ call = "srt_ts"
  /\ ret' = srt_ts(args)
  /\ call' = "parse"
  /\ UNCHANGED <<args, EOther>>

\* A reader of the SRT file splits the timestamp into its fields.
ParseTs ==
  /\ call = "parse"
  /\ ret' = Fields(ret)
  /\ call' = "parsed"
  /\ UNCHANGED <<args, EOther>>

NextTs == FormatTs \/ ParseTs

SpecTs == InitTs /\ [][NextTs]_vars

\* C29: the fields read back from srt_ts(x) have two digits or more for the
\* hours, two for the minutes and the seconds, three for the milliseconds,
\* minutes and seconds below 60, milliseconds below 1000, and add up to
\* x * 1000 rounded to the nearest integer (a half to the even one).
C29_RoundTrip ==
  call = "parsed" =>
    LET hh == Number(ret[1])
        mm == Number(ret[2])
        ss == Number(ret[3])
        ms == Number(ret[4])
        total == ((hh * 60 + mm) * 60 + ss) * 1000 + ms
    IN /\ Len(ret[1]) >= 2 /\ Len(ret[2]) = 2 /\ Len(ret[3]) = 2 /\ Len(ret[4]) = 3
       /\ mm < 60 /\ ss < 60 /\ ms < 1000
       /\ 10 * total - args \in -5..5
       /\ 10 * total - args \in {-5, 5} => total % 2 = 0

\* 59.9995 s is written 00:01:00,000.
C29_Witness ==
  /\ call = "parsed" /\ args = 599995
  /\ ret = <<<<"0", "0">>, <<"0", "1">>, <<"0", "0">>, <<"0", "0", "0">>>>

(***************************************************************************)
(* api_status (1675-1706) polled by one client that passes the next_since  *)
(* of the previous response.  get_job returns the record of JOBS itself,   *)
(* so `logs` is the list append_log appends to, until append_log cuts the  *)
(* list: the cut binds j["logs"] to a new list (585) and the handler keeps *)
(* the old one, which then holds LOG_MAX_LINES + 1 entries.  A list is     *)
(* known by the seq of its first entry, which every cut raises.            *)
(***************************************************************************)
POther == <<now, up, META_DIRTY, JOB_QUEUE, disk, wvars, svars, cvars, dvars,
            jvars, fvars, hist, counts, tvars, SHUTDOWN, avars, purged, Config,
            jticked, call, args, ret>>

\* The entries of the list the handler holds, as they are now.
HeldLogs ==
  IF plogs = 0 THEN <<>>
  ELSE IF pjob \in DOMAIN JOBS /\ JOBS[pjob].logs # <<>>
          /\ JOBS[pjob].logs[1] = plogs
    THEN JOBS[pjob].logs
    ELSE [i \in 1..LOG_MAX_LINES + 1 |-> plogs + i - 1]

\* 1681-1691: j = get_job(job_id); logs = j.get("logs") or []
StatusGet ==
  /\ up /\ ppc = "idle"
  /\ \E id \in DOMAIN JOBS :
       /\ pjob \in {NoJob, id}
       /\ pjob' = id
       /\ JOBS' = get_job(JOBS, id)
       /\ plogs' = IF JOBS'[id].logs = <<>> THEN 0 ELSE JOBS'[id].logs[1]
       /\ overrun' = (overrun \/ JOBS'[id].log_seq - seen >= LOG_MAX_LINES)
       /\ seen' = JOBS'[id].log_seq
  /\ ppc' = "filter"
  /\ UNCHANGED <<new_logs, since, received, POther>>

\* 1692: new_logs = [x for x in logs if int(x.get("seq", 0)) > since]
StatusFilter ==
  /\ up /\ ppc = "filter"
  /\ new_logs' = SelectSeq(HeldLogs, LAMBDA x : x > since)
  /\ ppc' = "next"
  /\ UNCHANGED <<JOBS, pjob, plogs, since, received, seen, overrun, POther>>

\* 1693-1706: next_since is read from the list, the response goes out, and
\* the client keeps the lines and the cursor.
StatusNext ==
  /\ up /\ ppc = "next"
  /\ since' = IF HeldLogs # <<>> THEN HeldLogs[Len(HeldLogs)] ELSE since
  /\ received' = received \o new_logs
  /\ ppc' = "idle" /\ plogs' = 0 /\ new_logs' = <<>>
  /\ UNCHANGED <<JOBS, pjob, seen, overrun, POther>>

Status == StatusGet \/ StatusFilter \/ StatusNext

NextPoll == Threads \/ Status

SpecPoll == Init /\ [][NextPoll]_vars

\* C30: as long as fewer than LOG_MAX_LINES lines were appended between two
\* polls, the lines the client has received are the lines 1..since, each
\* once and in increasing order.
C30_CursorComplete ==
  ~overrun => received = [i \in 1..since |-> i]

(***************************************************************************)
(* transcribe_task (1219-1266) on one segment, with the arguments of its   *)
(* provider calls.  Times are in milliseconds.  An answer of a provider is *)
(* a transcript ("text"), a transcript that normalizes to nothing          *)
(* ("blank"), HTTP 200 with an empty transcript ("empty"), another status  *)
(* ("status") or an exception ("error").  The job is not cancelled.        *)
(***************************************************************************)
Answers == {"text", "blank", "empty", "status", "error"}

\* An _empty_retry_window whose pad does not depend on the duration.
empty_retry_window_fixed(seg) ==
  LET retry_start == Max(0, seg[1] - 220)
  IN <<retry_start, Max(retry_start + 20, seg[2] + 220)>>

\* 1213-1217
empty_retry_window(seg) ==
  LET pad == IF dur(seg) < 1200 THEN 220 ELSE IF dur(seg) < 3000 THEN 350 ELSE 500
      retry_start == Max(0, seg[1] - pad)
  IN <<retry_start, Max(retry_start + 20, seg[2] + pad)>>

\* 1252-1264: the SegmentResult made of the last answer.
SegmentResult(seg, provider, answer) ==
  [ok |-> answer = "text", start |-> seg[1], end |-> seg[2],
   error |-> CASE answer = "text" -> "null"
               [] answer = "blank" -> "EMPTY_AFTER_NORMALIZE"
               [] answer = "empty" -> IF provider = "hf" THEN "HF_EMPTY_TRANSCRIPT"
                                      ELSE "EMPTY_TRANSCRIPT"
               [] answer = "status" -> "ERR_STATUS"
               [] OTHER -> "EXC"]

MaxStart == 1000
SegStarts == {0, 100, MaxStart}
SegDurations == {5, 500, 1199, 1200, 2999, 3000, 5000}

InitRetry ==
  /\ AtRest
  /\ call = "transcribe_task"
  /\ args \in [seg : {<<st, st + d>> : st \in SegStarts, d \in SegDurations},
               language : {"auto", "zh", "en"},
               model : {"nova-2", "kotoba-whisper"}]
  /\ ret = [calls |-> <<>>]

\* 1235-1244: the early return on a segment under 0.01 s, else the cut of
\* [start, end] and the call of the provider the model name selects.
TaskCall ==
  /\ call = "transcribe_task"
  /\ IF dur(args.seg) < 10
       THEN /\ ret' = [calls |-> <<>>,
                       result |-> [ok |-> FALSE, start |-> args.seg[1],
                                   end |-> args.seg[2],
                                   error |-> "INVALID_SEGMENT_DURATION"]]
            /\ call' = "returned"
       ELSE \E o \in Answers :
            LET provider == IF args.model = "kotoba-whisper" THEN "hf" ELSE "deepgram"
            IN /\ ret' = [calls |-> <<[provider |-> provider, window |-> args.seg,
                                       language |-> args.language, answer |-> o]>>]
               /\ call' = IF provider = "deepgram" /\ o = "empty"
                            THEN "retry" ELSE "result"
  /\ UNCHANGED <<args, EOther>>

\* 1246-1251
TaskRetry ==
  /\ call = "retry"
  /\ \E o \in Answers :
       ret' = [calls |-> Append(ret.calls,
                 [provider |-> "deepgram", window |-> empty_retry_window(args.seg),
                  language |-> IF args.language # "auto" THEN "auto"
                               ELSE args.language,
                  answer |-> o])]
  /\ call' = "result"
  /\ UNCHANGED <<args, EOther>>

\* 1253-1266
TaskResult ==
  /\ call = "result"
  /\ LET last == ret.calls[Len(ret.calls)]
     IN ret' = [calls |-> ret.calls,
                result |-> SegmentResult(args.seg, last.provider, last.answer)]
  /\ call' = "returned"
  /\ UNCHANGED <<args, EOther>>

NextRetry == TaskCall \/ TaskRetry \/ TaskResult

SpecRetry == InitRetry /\ [][NextRetry]_vars

\* C31: a task makes at most two provider calls; the second is made only
\* after the general provider answered 200 with an empty transcript, on the
\* window [max(0, start - pad), end + pad] with pad 0.22 s under 1.2 s,
\* 0.35 s under 3.0 s, else 0.50 s, and with language auto; the result
\* is the outcome of the last call and keeps the segment's start and end.
C31_EmptyRetry ==
  call = "returned" =>
    LET st == args.seg[1]
        en == args.seg[2]
        n == Len(ret.calls)
    IN /\ n <= 2
       /\ n >= 1 => /\ ret.calls[1].window = args.seg
                    /\ ret.calls[1].language = args.language
                    /\ ret.result.ok <=> ret.calls[n].answer = "text"
                    /\ ret.calls[n].answer = "empty"
                         => ret.result.error \in {"EMPTY_TRANSCRIPT", "HF_EMPTY_TRANSCRIPT"}
       /\ n = 2 => /\ args.model = "nova-2"
                   /\ ret.calls[1].provider = "deepgram"
                   /\ ret.calls[1].answer = "empty"
                   /\ ret.calls[2].language = "auto"
                   /\ \E pad \in {220, 350, 500} :
                        /\ pad = 220 <=> en - st < 1200
                        /\ pad = 500 <=> en - st >= 3000
                        /\ ret.calls[2].window =
                             <<IF st > pad THEN st - pad ELSE 0, en + pad>>
       /\ ret.result.start = st /\ ret.result.end = en

\* A segment of 1.2 s in Chinese got an empty transcript and its retry, on
\* the window padded by 0.35 s, a transcript.
C31_Witness ==
  /\ call = "returned"
  /\ args.seg = <<100, 1300>> /\ args.language = "zh"
  /\ Len(ret.calls) = 2
  /\ ret.calls[2].window = <<0, 1650>>
  /\ ret.result.ok

(***************************************************************************)
(* The forced split of detect_speech_segments (754-769) on the segments    *)
(* that passed the MIN_SEGMENT_SECONDS filter, with its count of splits.   *)
(* Times are in hundredths of a second.                                    *)
(***************************************************************************)
\* 761-767: split_count of the pieces of a long segment from cur on.
RECURSIVE ChunkSplits(_, _)
ChunkSplits(cur, end) ==
  IF cur < end - 5
    THEN LET nxt == Min(cur + MAX_SEGMENT_SECONDS, end)
         IN (IF nxt < end THEN 1 ELSE 0) + ChunkSplits(nxt, end)
    ELSE 0

\* 755-767: split_count over the list.
RECURSIVE SplitCount(_)
SplitCount(filtered) ==
  IF filtered = <<>> THEN 0
  ELSE (IF dur(Head(filtered)) <= MAX_SEGMENT_SECONDS THEN 0
        ELSE ChunkSplits(Head(filtered)[1], Head(filtered)[2]))
       + SplitCount(Tail(filtered))

\* The inputs: one or two segments in order, the second after the first.
MaxGap == 50
SplitStarts == {0, 200}
SplitDurations == {25, 1500, 1503, 1505, 1506, 1530, 3000, 3004, 3100}
FilteredLists ==
  {<<<<st, st + d>>>> : st \in SplitStarts, d \in SplitDurations}
    \cup {<<<<st, st + d>>, <<st + d + g, st + d + g + e>>>> :
            st \in SplitStarts, d \in SplitDurations, g \in {0, MaxGap},
            e \in SplitDurations}

InitSplit ==
  /\ AtRest
  /\ call = "forced_split"
  /\ args \in FilteredLists
  /\ ret = <<>>

\* 754-769
ForceSplit ==
  /\ call = "forced_split"
  /\ ret' = [out |-> ForcedSplit(args), split_count |-> SplitCount(args)]
  /\ call' = "returned"
  /\ UNCHANGED <<args, EOther>>

SpecSplit == InitSplit /\ [][ForceSplit]_vars

\* The positions in out of the pieces that lie within a segment.
PiecesOf(seg, out) ==
  {i \in 1..Len(out) : seg[1] <= out[i][1] /\ out[i][2] <= seg[2]}

\* C32: the pieces of every segment longer than MAX_SEGMENT_SECONDS are
\* contiguous, each at most MAX_SEGMENT_SECONDS long, the first starts at
\* the segment's start and the last ends at the segment's end; split_count
\* is the number of pieces minus one, summed over the split segments.
C32_ForceSplitCovers ==
  call = "returned" =>
    LET long == {k \in 1..Len(args) : dur(args[k]) > MAX_SEGMENT_SECONDS}
        pieces(k) == PiecesOf(args[k], ret.out)
        extra[S \in SUBSET long] ==
          IF S = {} THEN 0
          ELSE LET k == CHOOSE x \in S : TRUE
               IN Cardinality(pieces(k)) - 1 + extra[S \ {k}]
    IN /\ \A k \in long :
            /\ pieces(k) # {}
            /\ \E i \in pieces(k) : ret.out[i][1] = args[k][1]
            /\ \E i \in pieces(k) : ret.out[i][2] = args[k][2]
            /\ \A i \in pieces(k) :
                 /\ dur(ret.out[i]) <= MAX_SEGMENT_SECONDS
                 /\ i + 1 \in pieces(k) => ret.out[i + 1][1] = ret.out[i][2]
       /\ ret.split_count = extra[long]

(***************************************************************************)
(* The merge-short pass on its own (835-883): the input is any non-empty   *)
(* list of segments that do not overlap, in any order, with the two        *)
(* options as process_job passes them (1359-1369, already clamped).        *)
(***************************************************************************)
\* 866-871: the merges the loop performs from its current element on, each
\* as the previous accepted segment, the short segment and the result.
RECURSIVE Merges(_, _, _, _, _)
Merges(src, out, min_dur, merge_gap, max_dur) ==
  IF src = <<>> THEN <<>>
  ELSE LET seg == Head(src)
           next == MergeShort(<<seg>>, out, min_dur, merge_gap, max_dur)
           here == IF Len(next) = Len(out) /\ next # out
                     THEN <<[prev |-> out[Len(out)], seg |-> seg,
                             merged |-> next[Len(next)]]>>
                     ELSE <<>>
       IN here \o Merges(Tail(src), next, min_dur, merge_gap, max_dur)

MaxSegs == 3
MergeInstants == {0, 30, 40, 60, 160, 1480, 1500, 1520}
MergeItems == {p \in MergeInstants \X MergeInstants : p[1] < p[2]}
NonOverlapping ==
  {l \in UNION {[1..n -> MergeItems] : n \in 1..MaxSegs} :
     \A i, j \in 1..Len(l) : i # j => l[i][2] <= l[j][1] \/ l[j][2] <= l[i][1]}

InitMerge ==
  /\ AtRest
  /\ call = "optimize_segments_for_transcription"
  /\ args \in [segments : NonOverlapping,
               min_transcribe_seconds : MinTranscribeOptions,
               merge_gap_seconds : MergeGapOptions]
  /\ ret = <<>>

\* 1371-1376 with 835-883
MergeShortPass ==
  /\ call = "optimize_segments_for_transcription"
  /\ ret' = [out |-> optimize_segments_for_transcription(
                       args.segments, args.min_transcribe_seconds,
                       args.merge_gap_seconds, MAX_SEGMENT_SECONDS),
             merges |-> Merges(sorted(args.segments), <<>>,
                               clamp(args.min_transcribe_seconds, 20, 200),
                               clamp(args.merge_gap_seconds, 0, 100),
                               Max(200, MAX_SEGMENT_SECONDS))]
  /\ call' = "returned"
  /\ UNCHANGED <<args, EOther>>

SpecMerge == InitMerge /\ [][MergeShortPass]_vars

\* C33: for a non-empty list of segments that do not overlap, the output of
\* the merge-short pass is non-empty, sorted by start and non-overlapping; a
\* segment produced by a merge is at most MAX_SEGMENT_SECONDS long, and a
\* short segment is merged into the previous accepted one only if the gap
\* between them is at most merge_gap_seconds.
C33_MergeShort ==
  (call = "returned" /\ "merges" \in DOMAIN ret) =>
    /\ ret.out # <<>>
    /\ \A i \in 1..Len(ret.out) - 1 :
         /\ ret.out[i][1] <= ret.out[i + 1][1]
         /\ ret.out[i][2] <= ret.out[i + 1][1]
    /\ \A k \in 1..Len(ret.merges) :
         /\ dur(ret.merges[k].merged) <= MAX_SEGMENT_SECONDS
         /\ ret.merges[k].seg[1] - ret.merges[k].prev[2]
              <= args.merge_gap_seconds
    /\ \A i \in 1..Len(ret.out) :
         (\E k \in 1..Len(ret.merges) :
            /\ ret.merges[k].merged[1] = ret.out[i][1]
            /\ ret.merges[k].merged[2] <= ret.out[i][2])
           => dur(ret.out[i]) <= MAX_SEGMENT_SECONDS

\* A short segment was merged into its predecessor across a positive gap,
\* and another short segment was kept apart because the gap was too wide.
C33_Witness ==
  /\ call = "returned"
  /\ "merges" \in DOMAIN ret
  /\ Len(ret.merges) = 1
  /\ ret.merges[1].seg[1] > ret.merges[1].prev[2]
  /\ Len(ret.out) = 2
  /\ Len(args.segments) = 3

(***************************************************************************)
(* allocate_line_times on its own (1046-1081): a segment and the lines of  *)
(* its text, each line given by its length.  Times are in milliseconds.    *)
(***************************************************************************)
MaxLines == 3
AllocSegments ==
  {<<0, 250>>, <<0, 400>>, <<0, 500>>, <<0, 600>>, <<0, 1000>>, <<0, 1500>>,
   <<600, 800>>, <<600, 1100>>, <<600, 1500>>, <<600, 15600>>}
AllocLines == UNION {[1..n -> {1, 3, 8}] : n \in 1..MaxLines}

InitAlloc ==
  /\ AtRest
  /\ call = "allocate_line_times"
  /\ args \in [seg : AllocSegments, lines : AllocLines]
  /\ ret = <<>>

\* 1275
AllocateLineTimes ==
  /\ call = "allocate_line_times"
  /\ ret' = allocate_line_times(args.seg[1], args.seg[2], args.lines)
  /\ call' = "returned"
  /\ UNCHANGED <<args, EOther>>

SpecAlloc == InitAlloc /\ [][AllocateLineTimes]_vars

\* C34: for a segment [s, e] and k >= 1 lines, allocate_line_times returns k
\* cues in the order of the lines, each starting at or after the end of the
\* one before it, the first starting at s, the last ending exactly at e, and
\* every cue lasting at least 0.18 s.
C34_LineTimes ==
  (call = "returned" /\ "seg" \in DOMAIN args) =>
    /\ Len(ret) = Len(args.lines)
    /\ \A i \in 1..Len(ret) : ret[i][3] = args.lines[i]
    /\ \A i \in 1..Len(ret) - 1 : ret[i + 1][1] >= ret[i][2]
    /\ ret[1][1] = args.seg[1]
    /\ ret[Len(ret)][2] = args.seg[2]
    /\ \A i \in 1..Len(ret) : ret[i][2] - ret[i][1] >= 180

(***************************************************************************)
(* The compaction of build_srt (1291-1305), stated from the list of final  *)
(* cues: a cue joins the one before it when both carry the same text and   *)
(* it starts at most 0.12 s after the other ends.                          *)
(***************************************************************************)
Joined(cues, i) ==
  cues[i + 1][3] = cues[i][3] /\ cues[i + 1][1] - cues[i][2] <= 120

\* The cues of the run that starts at cue a.
Run(cues, a) == {j \in a..Len(cues) : \A m \in a..j - 1 : Joined(cues, m)}

RunStarts(cues) == {a \in 1..Len(cues) : a = 1 \/ ~Joined(cues, a - 1)}

LargestEnd(cues, run) ==
  CHOOSE e \in {cues[j][2] : j \in run} : \A j \in run : cues[j][2] <= e

\* C35: in the cues build_srt writes no two consecutive cues have the same
\* text and a gap of at most 0.12 s; the compaction replaces every run of
\* joined cues by one cue from the start of the first to the largest end of
\* the run; the written cues are numbered consecutively from 1.
C35_Compaction ==
  /\ [](call = "written" =>
          /\ \A i \in 1..Len(ret) : ret[i][4] = i
          /\ \A i \in 1..Len(ret) - 1 :
               ~(ret[i + 1][3] = ret[i][3] /\ ret[i + 1][1] - ret[i][2] <= 120))
  /\ [][call = "compact_cues" =>
          /\ Len(ret') = Cardinality(RunStarts(ret))
          /\ {ret'[k] : k \in 1..Len(ret')} =
               {<<ret[a][1], LargestEnd(ret, Run(ret, a)), ret[a][3]>> :
                  a \in RunStarts(ret)}]_vars

\* Two cues with the same text 0.1 s apart were written as one cue, and in
\* another file two cues with the same text 0.2 s apart as cues 1 and 2.
C35_Witness ==
  /\ call = "written"
  /\ Len(args) = 2
  /\ \A i \in 1..2 : args[i].lines = <<4>>
  /\ \/ ret = <<<<0, 800, 4, 1>>>>
     \/ ret = <<<<0, 400, 4, 1>>, <<600, 800, 4, 2>>>>

(***************************************************************************)
(* The error strings of a job: what transcribe_task returns for a failed   *)
(* segment (1150, 1189, 1259-1264), what process_job logs for it           *)
(* (1424-1425), and what process_job stores and logs when the pipeline     *)
(* raises (1453-1456).  A string is modelled by its length in characters.  *)
(***************************************************************************)
ErrorChars == 4000
BodyChars == 180

\* The lengths of a response body, of the output of ffmpeg and of the
\* message of an exception.
TextLengths == {0, 1, 60, 168, 175, 179, 180, 181, 273, 3999, 4000, 4001, 6000}

\* The length of the fixed text before the cut message: "DG_ERR_500: ",
\* "HF_ERR_500: ", "FFMPEG_ERR: " and "EXC: ".
PrefixChars(site) == IF site = "EXC" THEN 5 ELSE 12

\* text[:n]
Cut(length, n) == Min(length, n)

SegmentSites == {"DG_ERR", "HF_ERR", "FFMPEG_ERR", "EXC"}

InitErr ==
  /\ AtRest
  /\ \/ /\ call = "transcribe_task"
        /\ args \in [site : SegmentSites, text : TextLengths]
     \/ /\ call = "process_job"
        /\ args \in [site : {"raise"}, text : TextLengths \ {0}]
  /\ ret = <<>>

\* 1150, 1189, 1261-1264: r.error of the failed segment.
TranscribeError ==
  /\ call = "transcribe_task"
  /\ ret' = [error |-> PrefixChars(args.site) + Cut(args.text, BodyChars)]
  /\ call' = "as_completed"
  /\ UNCHANGED <<args, EOther>>

\* 1424-1425: the warning of the segment; the error text in it is r.error.
SegmentWarning ==
  /\ call = "as_completed"
  /\ ret' = ret @@ [log_error |-> ret.error]
  /\ call' = "logged"
  /\ UNCHANGED <<args, EOther>>

\* 1454-1455 with 606-607: err = str(e) stored on the record.
SetError ==
  /\ call = "process_job"
  /\ ret' = [err |-> args.text, error |-> Cut(args.text, ErrorChars)]
  /\ call' = "set_error"
  /\ UNCHANGED <<args, EOther>>

\* 1456: the failure line; the error text in it is err.
LogFailure ==
  /\ call = "set_error"
  /\ ret' = ret @@ [log_error |-> ret.err]
  /\ call' = "logged"
  /\ UNCHANGED <<args, EOther>>

NextErr == TranscribeError \/ SegmentWarning \/ SetError \/ LogFailure

SpecErr == InitErr /\ [][NextErr]_vars

\* C36: the error string stored on a job record is at most 4000 characters
\* long, and the error text in a log line (the warning of a segment, the
\* failure line of the job) is at most 180 characters long.
C36_ErrorBounds ==
  /\ (call \in {"set_error", "logged"} /\ args.site = "raise")
       => ret.error <= ErrorChars
  /\ call = "logged" => ret.log_error <= BodyChars

(***************************************************************************)
(* Termination of the jobs of one process.  The process starts on the      *)
(* jobs directory an earlier process left: empty, or with the flushed      *)
(* record of job 1, queued or running, its upload and, if a worker of the  *)
(* earlier process held the lease, its lock file.  AUTO_CLEANUP_ENABLED    *)
(* is either value of the environment (123).  Nothing dies afterwards.     *)
(***************************************************************************)
LeftJobs ==
  {<<EmptyMap, {}>>,
   <<(1 :> NewRec(0)), {}>>, <<(1 :> NewRec(0)), {1}>>,
   <<(1 :> RunningRec(0)), {1}>>}

InitLive ==
  /\ now = 0
  /\ MemoryInit
  /\ TaskInit /\ EventInit /\ WriteInit /\ JanitorInit /\ NoCall /\ NoPoll
  /\ Config \in [AUTO_CLEANUP_ENABLED : BOOLEAN,
                 AUTO_CLEANUP_AFTER_DOWNLOAD : {AUTO_CLEANUP_AFTER_DOWNLOAD},
                 DOWNLOAD_GRACE_SECONDS : {DOWNLOAD_GRACE_SECONDS}]
  /\ \E left \in LeftJobs :
       /\ META = left[1] /\ LOCKS = left[2] /\ UPLOADS = DOMAIN left[1]
       /\ nstart = Cardinality(DOMAIN left[1])
  /\ TMPDIRS = {} /\ OUTPUTS = {}
  /\ ncancel = 0 /\ ndownload = 0 /\ ncrash = 0 /\ nenq = 0

NextLive ==
  \/ Threads
  \/ \E w \in Workers : PSkipLog(w)
  \/ Janitor

\* Every thread that can take a step takes one, and the clock advances
\* whenever every thread waits.
Fairness ==
  /\ \A w \in Workers : WF_vars(WorkerRun(w) \/ PSkipLog(w))
  /\ WF_vars(Bootstrap)
  /\ WF_vars(StartLog \/ StartPut)
  /\ WF_vars(Janitor)
  /\ SF_vars(Tick)

SpecLive == InitLive /\ [][NextLive]_vars /\ Fairness

Enqueued(id) == \E i \in 1..Len(JOB_QUEUE) : JOB_QUEUE[i] = id

\* The clock of the model has reached its end: a janitor that runs has no
\* later tick in which a heartbeat can be found stale.
ClockEnd == now = MaxTicks * TickSeconds

\* C37: without a process death and under fair scheduling, every job that
\* is in the queue eventually has status done, error or cancelled (its
\* record is removed only after that), whatever AUTO_CLEANUP_ENABLED and the
\* lock files are.  Where the janitor runs, a behaviour is followed up to
\* the end of the clock.
C37_Terminates ==
  \A id \in JobIds :
    (up /\ Enqueued(id)) ~>
      \/ id \notin DOMAIN JOBS
      \/ JOBS[id].status \in Terminal
      \/ Config.AUTO_CLEANUP_ENABLED /\ ClockEnd

(***************************************************************************)
(* The fate of a request to cancel: the workers and api_cancel in a        *)
(* process that does not die, under fair scheduling of every thread.       *)
(***************************************************************************)
NextLost == Threads \/ Cancel

\* A handler that has begun returns and a worker that can step steps; the
\* requests come when they come.
FairnessLost ==
  /\ \A w \in Workers : WF_vars(WorkerRun(w) \/ WorkerCancelled(w))
  /\ WF_vars(Bootstrap)
  /\ WF_vars(StartLog \/ StartPut)
  /\ WF_vars(CancelUpdate \/ CancelLog \/ CancelRead \/ CancelSet)

SpecLost == Init /\ [][NextLost]_vars /\ FairnessLost

\* C38: a job whose cancel_requested is true while its status is queued or
\* running eventually has status cancelled.
C38_CancelNotLost ==
  \A id \in JobIds :
    (up /\ id \in DOMAIN JOBS /\ JOBS[id].cancel_requested
        /\ JOBS[id].status \in Active)
      ~> (up /\ id \in DOMAIN JOBS /\ JOBS[id].status = "cancelled")

(***************************************************************************)
(* The reaper and the workers: _delete_job_artifacts (1495-1504) is under  *)
(* way on jcur from the decision of 1548 until JOBS.pop.                   *)
(***************************************************************************)
Deleting(id) == jpc \in {"del_lock", "del_files", "del_pop"} /\ jcur = id

\* C39: while _delete_job_artifacts works on a job, the status of its record
\* is done, error or cancelled, and no worker holds its lease or executes
\* its pipeline.
C39_NoActivePurge ==
  \A id \in JobIds :
    Deleting(id) =>
      /\ id \in DOMAIN JOBS => JOBS[id].status \in Terminal
      /\ \A w \in Workers : ~(wjob[w] = id /\ wpc[w] \in HolderPcs)

(***************************************************************************)
(* The flusher with the copy of _snapshot_for_meta taken as the code takes *)
(* it: flush_meta_once gets the live record from get_job (488) and calls   *)
(* copy.deepcopy on it (454) without JOBS_LOCK, so the copy reads the keys *)
(* of the record one after the other, in the order init_job created them   *)
(* (513-530), while the other threads write the record.  The copy under    *)
(* way is the function under evaluation: args holds the id and the keys    *)
(* still to read, ret the part of the copy already made.  FlushWrite, the  *)
(* flusher of the other specifications, takes the copy in one step.        *)
(***************************************************************************)
RecordKeys ==
  <<"status", "progress", "updated_at", "started_at", "finished_at",
    "last_heartbeat", "logs", "log_seq", "error", "result_path",
    "downloaded_at", "cancel_requested">>

SnapOther ==
  <<now, up, META_DIRTY, JOB_QUEUE, LOCKS, UPLOADS, TMPDIRS, OUTPUTS, wvars,
    svars, cvars, dvars, jvars, hist, counts, tvars, SHUTDOWN, avars, purged,
    Config, jticked, pvars>>

\* 487-490: j = get_job(jid)
SnapGet ==
  /\ up /\ fpc = "write" /\ call = "none"
  /\ \E id \in fids :
       /\ JOBS' = get_job(JOBS, id)
       /\ IF id \in DOMAIN JOBS'
            THEN /\ call' = "deepcopy"
                 /\ args' = [id |-> id, keys |-> RecordKeys]
                 /\ ret' = <<>>
                 /\ UNCHANGED <<fids, fpc>>
            ELSE /\ fids' = fids \ {id}
                 /\ fpc' = IF fids' = {} THEN "idle" ELSE "write"
                 /\ UNCHANGED <<call, args, ret>>
  /\ UNCHANGED <<META, SnapOther>>

\* 454: copy.deepcopy(j) reads the next key of the live record.
SnapCopy ==
  /\ up /\ call = "deepcopy" /\ args.keys # <<>>
  /\ args.id \in DOMAIN JOBS
  /\ ret' = (Head(args.keys) :> JOBS[args.id][Head(args.keys)]) @@ ret
  /\ args' = [args EXCEPT !.keys = Tail(@)]
  /\ UNCHANGED <<call, JOBS, META, fids, fpc, SnapOther>>

\* 455-458 and 492: the logs of the copy are cut and save_meta writes it.
SnapSave ==
  /\ up /\ call = "deepcopy" /\ args.keys = <<>>
  /\ META' = (args.id :> SnapshotForMeta(ret)) @@ META
  /\ fids' = fids \ {args.id}
  /\ fpc' = IF fids' = {} THEN "idle" ELSE "write"
  /\ call' = "none" /\ args' = <<>> /\ ret' = <<>>
  /\ UNCHANGED <<JOBS, SnapOther>>

\* The workers, api_start and the flusher; the clock stands still, since
\* no step of the copy depends on it.
NextSnap ==
  \/ Bootstrap
  \/ StartInit \/ StartLog \/ StartPut
  \/ \E w \in Workers : WorkerRun(w)
  \/ FlushBegin \/ SnapGet \/ SnapCopy \/ SnapSave

SpecSnap == Init /\ [][NextSnap]_vars

\* The relation of log_seq and logs that append_log keeps (582-583).
SeqOfLastLog(rec) ==
  rec.logs # <<>> => rec.log_seq = rec.logs[Len(rec.logs)]

\* C40: a snapshot in meta/<id>.json is a state the record in memory had at
\* one instant; in particular, when its logs are not empty its log_seq is
\* the seq of its last log entry.
C40_SnapshotConsistent ==
  /\ \A id \in DOMAIN JOBS : SeqOfLastLog(JOBS[id])
  /\ \A id \in DOMAIN META : SeqOfLastLog(META[id])

====
